---------------------------- MODULE Spec2Model ----------------------------
(***************************************************************************)
(* A model of payprocd's request handling core: the in-memory session and  *)
(* alias store (session.c), the connection dispatcher with its peer-UID    *)
(* checks (commands.c, payprocd.c), the journal (journal.c), the PayPal    *)
(* token cache, checkout and IPN handling (paypal.c, paypal-ipn.c), the    *)
(* preorder db (preorder.c), the data lines of requests and replies        *)
(* (protocol-io.c) and the escaping of journal fields.                     *)
(*                                                                         *)
(* Pointers are object numbers, NULL is 0.  Session and alias ids are the  *)
(* numbers handed out by next_id (gcry_create_nonce is taken to return a   *)
(* value never returned before); the id 0 stands for a malformed id.       *)
(***************************************************************************)
EXTENDS Integers, Sequences, FiniteSets, TLC

\* ------------------------------------------------------------------ bounds
\* Number of ids (sessions and aliases together) the nonce generator hands
\* out in a run in which the clock advances, and in a run in which it stands.
MaxIds == 3
MaxIdsA == 5
MaxIdsB == 6
\* Number of times the wall clock advances in one run.
MaxTicks == 2
\* Number of hash buckets (the code has 32*32 of them).
NBuckets == 2
\* Number of session objects the clients allocate in a run in which the
\* clock advances, and in a run in which it stands.
MaxSess == 1
MaxSessA == 2
\* Number of writes through the uninitialized pointer in one run.
MaxStray == 1
\* Number of connection objects in use at a time.
MaxConn == 2
\* Number of --allow-uid and --admin-uid options on the command line.
MaxOpts == 2
\* Number of signals sent to the daemon from outside in one run.
MaxSignals == 3
\* The peers' user ids are 1..MaxUid.
MaxUid == 3
\* Number of threads that work at a time.
MaxThreads == 2
\* Number of journal records written in one run.
MaxRecs == 3
\* Number of pieces in which a record reaches its file.
NChunks == 2
\* Number of days a run of the journal writers spans.
MaxDays == 2
\* Number of calls of get_access_token in one run.
MaxCalls == 3
\* The time a run of the token cache spans.
HorizonP == 61
\* Number of references the nonces of make_sepa_ref give.
NRefs == 2
\* Number of conflicts in a row an insert meets when others run as well.
MaxClash == 2
\* Number of preorder commands in one run.
MaxPReq == 3
\* Number of data lines in a request.
MaxLines == 2
\* Number of bytes of a field.
MaxLen == 3
\* Seconds the main loop runs.
HorizonT == 4000
\* Seconds by which npth_pselect returns after its timeout.
MaxLate == 1
\* Seconds after which a connection wakes the main loop.
EarlyWake == 10

\* ------------------------------------------------------- program constants
\* gmtime: the seconds of a day.
SecsPerDay == 86400
\* get_access_token: int max_retries = 10.
MaxRetries == 10
\* insert_preorder_record: ++retrycount < 11000.
RetryLimit == 11000
\* The days of the journal, the steps of its clock.
Days == 0..MaxDays
DaySteps == {SecsPerDay \div 2}
\* The values of expires_in the gateway sends, the steps of the clock while
\* tokens are asked for.
ExpiresIn == {59, 61, 601}
TokenSteps == {30, 31}
DEFAULT_TTL == 1800
MAX_SESSION_LIFETIME == 21600
MAX_SESSIONS == 65536
MAX_ALIASES_PER_SESSION == 3

NULL == 0
\* Result of a chain walk that never ends (a cyclic chain).
HANG == -1

\* Session objects and alias objects that malloc can hand out.
SObjs == 1..MaxSessA
AObjs == 1..MaxIdsB
\* An address outside the store's own objects.
WILD == MaxIdsB + 1
ACells == 1..WILD

Buckets == 0..(NBuckets - 1)
Slots == 1..MAX_ALIASES_PER_SESSION

\* Names and values of dictionary entries.  A name is the sequence of its
\* characters, each given by its ASCII code; a value is a string, "" the
\* empty one.
Foo == <<70, 111, 111>>
Names == {Foo}
Values == {"", "bar"}
\* Value of an entry whose value pointer is NULL.
NOVAL == "<null>"
\* The dictionaries a request can carry.
Dicts == {<<>>} \cup {<<[name |-> n, value |-> v]>> : n \in Names, v \in Values}

\* A ttl of one second.
ShortTtl == 1

\* The amounts by which the clock advances, and the TTLs a client asks for.
TimeSteps == {1, MAX_SESSION_LIFETIME}
TtlArgs == {0, ShortTtl, MAX_SESSION_LIFETIME + 1}

\* The seconds that pass between time (NULL) and lock_sessions () in
\* session_housekeeping.
HkDelays == {0, 1}

\* The number of sessions other clients hold when the run starts.
BulkChoices == {0, MAX_SESSIONS - 1}

VARIABLES
  now,              \* time (NULL)
  ticks,            \* number of clock advances so far
  sess,             \* the session objects: session_s
  salloc,           \* the session objects malloc has handed out
  sessions,         \* sessions[a][b]: heads of the session buckets
  unused_sessions,  \* head of the free list of session objects
  sessions_in_use,  \* the counter of the same name
  bulk,             \* sessions in the index that no modelled client knows
  al,               \* the alias objects: session_alias_s
  aalloc,           \* the alias objects malloc has handed out
  aliases,          \* aliases[a][b]: heads of the alias buckets
  unused_aliases,   \* head of the free list of alias objects
  next_id,          \* the next nonce
  proc,             \* "run", "crashed" (segfault) or "hung" (endless loop)
  wild_write,       \* memory outside the store's objects has been written
  strays,           \* writes through the uninitialized pointer so far
  hist              \* what the clients have seen of each id

storeVars == <<now, ticks, sess, salloc, sessions, unused_sessions,
               sessions_in_use, bulk, al, aalloc, aliases, unused_aliases,
               next_id, proc, wild_write, strays, hist>>

\* The daemon: its options, its main loop and its connection threads.
VARIABLES
  dstate,               \* "options", "serving" or "exited"
  exit_how,             \* "", "drained", "forced" or "sigint"
  allowed_uids,         \* opt.allowed_uids[0 .. n_allowed_uids-1]
  allowed_admin_uids,   \* opt.allowed_admin_uids[0 .. n_allowed_admin_uids-1]
  shutdown_pending,     \* the counter of the same name
  sig_pending,          \* the signals that wait for the main loop
  nsignals,             \* signals sent from outside so far
  active_connections,   \* the counter of the same name
  conn,                 \* the connection objects and their threads
  effects               \* what the command handlers have done so far

daemonVars == <<dstate, exit_how, allowed_uids, allowed_admin_uids,
                shutdown_pending, sig_pending, nsignals, active_connections,
                conn, effects>>

\* What the threads of the daemon share besides the session store.
VARIABLES
  exit_code,                \* the status the process exited with, -1 before
  locks,                    \* the npth mutexes: the thread that holds each
  logfile,                  \* journal.c: struct logfile_s
  jfiles,                   \* the daily journal files, by suffix
  jnext,                    \* number of the next journal record
  jw,                       \* the journal writers
  access_token,             \* paypal.c: the cached token, 0 if none
  expires_on,               \* paypal.c: static time_t expires_on
  status_unauthorized_seen, \* paypal.c: the flag of the same name
  gw,                       \* the gateway: tokens issued, 401s given
  tk,                       \* the callers of get_access_token
  lk,                       \* the threads that run command handlers
  ex,                       \* the threads in paypal_checkout_execute
  xpaid,                    \* per alias: the execute calls made to PayPal
  ptab,                     \* preorder.c: the rows of the preorder table
  pq,                       \* the threads that run a preorder command
  plog,                     \* what the preorder commands have answered
  ipn,                      \* the connections that carry a PPIPNHD request
  sreply,                   \* the last reply to a SESSION get or put
  sexp,                     \* what the clients have put into the session
  pe,                       \* a field on its way into the journal and back
  tm,                       \* payprocd.c: the ticker and its housekeeping
  su,                       \* payprocd.c: the creation of the socket
  ca,                       \* util.c: an amount and its conversion
  fp,                       \* paypal.c: a search for a billing plan
  ck                        \* the checkouts and charges of a session

procVars == <<exit_code, locks>>
journalVars == <<logfile, jfiles, jnext, jw>>
tokenVars == <<access_token, expires_on, status_unauthorized_seen, gw, tk>>
progVars == <<lk>>
execVars == <<ex, xpaid>>
preorderVars == <<ptab, pq, plog>>
ipnVars == <<ipn>>
dictVars == <<sreply, sexp>>
escVars == <<pe>>
otherVars == <<tm, su, ca, fp, ck>>
restVars == <<preorderVars, ipnVars, dictVars, escVars, otherVars>>
threadVars == <<procVars, journalVars, tokenVars, progVars, execVars,
                restVars>>

\* What the session store leaves alone.
restOfStore == <<daemonVars, threadVars>>

\* What the main loop and the connection threads leave alone.
restOfDaemon == <<storeVars, threadVars>>

\* What a thread that exits the process leaves alone.
daemonRest == <<allowed_uids, allowed_admin_uids, shutdown_pending,
                sig_pending, nsignals, active_connections, conn, effects>>

vars == <<storeVars, daemonVars, threadVars>>

\* ---------------------------------------------------------------- objects
\* A session object as calloc returns it.
ZeroSess == [next |-> NULL, ttl |-> 0, created |-> 0, accessed |-> 0,
             dict |-> <<>>, aliases |-> [i \in Slots |-> NULL], sessid |-> 0]

\* An alias object as calloc returns it.
ZeroAlias == [next |-> NULL, sess |-> NULL, aliasid |-> 0]

\* The store's memory as one record, for the operators below.
Mem == [sess |-> sess, salloc |-> salloc, sessions |-> sessions,
        unused_sessions |-> unused_sessions,
        sessions_in_use |-> sessions_in_use, bulk |-> bulk,
        al |-> al, aalloc |-> aalloc, aliases |-> aliases,
        unused_aliases |-> unused_aliases, next_id |-> next_id,
        proc |-> proc, wild_write |-> wild_write]

\* The store after module initialization: no objects, empty tables.
EmptyMem ==
  [sess |-> [o \in SObjs |-> ZeroSess], salloc |-> {},
   sessions |-> [b \in Buckets |-> NULL], unused_sessions |-> NULL,
   sessions_in_use |-> 0, bulk |-> 0,
   al |-> [c \in ACells |-> ZeroAlias], aalloc |-> {},
   aliases |-> [b \in Buckets |-> NULL], unused_aliases |-> NULL,
   next_id |-> 1, proc |-> "run", wild_write |-> FALSE]

\* The store is m.
IsMem(m) ==
  /\ sess = m.sess
  /\ salloc = m.salloc
  /\ sessions = m.sessions
  /\ unused_sessions = m.unused_sessions
  /\ sessions_in_use = m.sessions_in_use
  /\ bulk = m.bulk
  /\ al = m.al
  /\ aalloc = m.aalloc
  /\ aliases = m.aliases
  /\ unused_aliases = m.unused_aliases
  /\ next_id = m.next_id
  /\ proc = m.proc
  /\ wild_write = m.wild_write

SetMem(m) ==
  /\ sess' = m.sess
  /\ salloc' = m.salloc
  /\ sessions' = m.sessions
  /\ unused_sessions' = m.unused_sessions
  /\ sessions_in_use' = m.sessions_in_use
  /\ bulk' = m.bulk
  /\ al' = m.al
  /\ aalloc' = m.aalloc
  /\ aliases' = m.aliases
  /\ unused_aliases' = m.unused_aliases
  /\ next_id' = m.next_id
  /\ proc' = m.proc
  /\ wild_write' = m.wild_write

\* zb32_index of the first two characters of an id: the bucket of the id.
BucketOf(id) == id % NBuckets

\* strlen (id) == SESSID_LENGTH and both index characters are valid.
ValidId(id) == id # 0

Min(S) == CHOOSE x \in S : \A y \in S : x <= y

\* ------------------------------------------------------------- keyvalue.c
\* keyvalue_find: the position of the entry named key, 0 if there is none.
keyvalue_find(list, key) ==
  IF \E i \in 1..Len(list) : list[i].name = key
  THEN Min({i \in 1..Len(list) : list[i].name = key})
  ELSE 0

\* keyvalue_put without allocation failure: update the entry in place (a
\* NULL value is stored as such), or insert a new entry at the head; a new
\* entry with a NULL value is not inserted.
keyvalue_put(list, key, value) ==
  LET i == keyvalue_find(list, key) IN
  IF i # 0 THEN [list EXCEPT ![i].value = value]
  ELSE IF value # NOVAL THEN <<[name |-> key, value |-> value]>> \o list
  ELSE list

\* The value session_create, session_put and session_get hand to
\* keyvalue_put: (kv->value && *kv->value)? kv->value : NULL.
PutValue(v) == IF v # NOVAL /\ v # "" THEN v ELSE NOVAL

\* keyvalue_put allocates unless it is handed a NULL value.
PutAllocates(v) == PutValue(v) # NOVAL

\* The loop "for (kv = dict; kv; kv = kv->next) if (*kv->name) keyvalue_put"
\* of session_create, session_put and session_get, from entry i on.  With
\* oom the first put that allocates fails and the loop is left.
RECURSIVE PutAll(_, _, _, _)
PutAll(target, dict, i, oom) ==
  IF i > Len(dict) THEN [list |-> target, err |-> "OK"]
  ELSE IF dict[i].name = <<>> THEN PutAll(target, dict, i + 1, oom)
  ELSE IF oom /\ PutAllocates(dict[i].value)
       THEN [list |-> target, err |-> "ENOMEM"]
  ELSE PutAll(keyvalue_put(target, dict[i].name, PutValue(dict[i].value)),
              dict, i + 1, oom)

\* -------------------------------------------------------------- session.c
\* An expiry check without the absolute lifetime.
check_ttl_nocap(s, t) ==
  (s.ttl > 0 /\ s.accessed + s.ttl < t)

\* An expiry check without the idle timeout.
check_ttl_noidle(s, t) ==
  (s.created + MAX_SESSION_LIFETIME < t)

\* check_ttl (sess, now): whether the session has expired.

check_ttl(s, t) ==
  \/ (s.ttl > 0 /\ s.accessed + s.ttl < t)
  \/ (s.created + MAX_SESSION_LIFETIME < t)

\* Walk a session chain from p for sessid: [prev, cur], cur = NULL if the
\* chain ends without a match.
RECURSIVE FindSess(_, _, _, _)
FindSess(m, prev, p, sessid) ==
  IF p = NULL THEN [prev |-> prev, cur |-> NULL]
  ELSE IF m.sess[p].sessid = sessid THEN [prev |-> prev, cur |-> p]
  ELSE FindSess(m, p, m.sess[p].next, sessid)

\* Walk an alias chain from p for aliasid.  The walk of a chain that an
\* earlier write through a stray pointer has made cyclic never ends: cur is
\* HANG once more cells have been visited than exist.
RECURSIVE FindAlias(_, _, _, _, _)
FindAlias(m, prev, p, aliasid, fuel) ==
  IF p = NULL THEN [prev |-> prev, cur |-> NULL]
  ELSE IF m.al[p].aliasid = aliasid THEN [prev |-> prev, cur |-> p]
  ELSE IF fuel = 0 THEN [prev |-> prev, cur |-> HANG]
  ELSE FindAlias(m, p, m.al[p].next, aliasid, fuel - 1)

\* "Remove the item from the hash table" of do_destroy_alias.
UnlinkAlias(m, b, prev, alias) ==
  IF prev # NULL THEN [m EXCEPT !.al[prev].next = m.al[alias].next]
  ELSE [m EXCEPT !.aliases[b] = m.al[alias].next]

\* "Remove the reference from the session" of do_destroy_alias.
DropReference(m, alias, s) ==
  [m EXCEPT !.al[alias].sess = NULL,
            !.sess[s].aliases =
               [i \in Slots |-> IF m.sess[s].aliases[i] = alias
                                THEN NULL ELSE m.sess[s].aliases[i]]]

\* "Shove the item into the attic" of do_destroy_alias.
ShoveAlias(m, alias) ==
  [m EXCEPT !.al[alias].next = m.unused_aliases, !.unused_aliases = alias]

\* do_destroy_alias after its chain walk has returned f.  By id (need_lock)
\* the back reference of the alias is followed: sess->aliases[i] with
\* sess == NULL is a segmentation fault.
DestroyAliasAt(m, b, f, need_lock) ==
  IF f.cur = HANG THEN [m |-> [m EXCEPT !.proc = "hung"], err |-> "NONE"]
  ELSE IF f.cur = NULL THEN [m |-> m, err |-> "NOT_FOUND"]
  ELSE IF need_lock /\ m.al[f.cur].sess = NULL
  THEN [m |-> [UnlinkAlias(m, b, f.prev, f.cur) EXCEPT !.proc = "crashed"],
        err |-> "NONE"]
  ELSE IF need_lock
  THEN [m |-> ShoveAlias(DropReference(UnlinkAlias(m, b, f.prev, f.cur),
                                       f.cur, m.al[f.cur].sess), f.cur),
        err |-> "OK"]
  ELSE [m |-> ShoveAlias(UnlinkAlias(m, b, f.prev, f.cur), f.cur),
        err |-> "OK"]

\* do_destroy_alias for the id it has settled on.
DestroyAliasId(m, aliasid, need_lock) ==
  IF ~ValidId(aliasid) THEN [m |-> m, err |-> "INV_NAME"]
  ELSE DestroyAliasAt(m, BucketOf(aliasid),
                      FindAlias(m, NULL, m.aliases[BucketOf(aliasid)],
                                aliasid, WILD),
                      need_lock)

\* A do_destroy_alias that looks the alias up and leaves it in its table.
do_destroy_alias_kept(m, aliasid0, aliasobj) ==
  [m |-> m, err |-> DestroyAliasId(m, aliasid0, aliasobj = NULL).err]

\* do_destroy_alias (aliasid, alias): by id (need_lock, aliasobj = NULL) or
\* by object (aliasid = 0, the caller holds the lock and has cleared its
\* slot).  Returns the memory and the error code.
do_destroy_alias(m, aliasid0, aliasobj) ==
  DestroyAliasId(m,
                 IF aliasobj # NULL THEN m.al[aliasobj].aliasid ELSE aliasid0,
                 aliasobj = NULL)

\* The loop "Remove the aliases" of session_do_destroy from slot i on; it
\* is left at the first alias that do_destroy_alias does not destroy (r is
\* what do_destroy_alias returned for slot i).
RECURSIVE RemoveAliasesStrict(_, _, _)
RECURSIVE StrictNext(_, _, _)
StrictNext(r, s, i) ==
  IF r.err # "OK" THEN r ELSE RemoveAliasesStrict(r.m, s, i + 1)

RemoveAliasesStrict(m, s, i) ==
  IF i > MAX_ALIASES_PER_SESSION THEN [m |-> m, err |-> "OK"]
  ELSE IF m.sess[s].aliases[i] = NULL THEN RemoveAliasesStrict(m, s, i + 1)
  ELSE StrictNext(do_destroy_alias([m EXCEPT !.sess[s].aliases[i] = NULL],
                                   0, m.sess[s].aliases[i]),
                  s, i)

\* The same loop in session_housekeeping, which ignores the error code.
RECURSIVE RemoveAliasesLax(_, _, _)
RemoveAliasesLax(m, s, i) ==
  IF i > MAX_ALIASES_PER_SESSION \/ m.proc # "run" THEN m
  ELSE IF m.sess[s].aliases[i] = NULL THEN RemoveAliasesLax(m, s, i + 1)
  ELSE RemoveAliasesLax(
         do_destroy_alias([m EXCEPT !.sess[s].aliases[i] = NULL],
                          0, m.sess[s].aliases[i]).m,
         s, i + 1)

\* "Remove the item from the hash table", "Remove the data" and "Shove the
\* item into the attic" of session_do_destroy and session_housekeeping.
UnlinkSession(m, b, prev, s) ==
  IF prev # NULL
  THEN [m EXCEPT !.sess[prev].next = m.sess[s].next,
                 !.sessions_in_use = m.sessions_in_use - 1,
                 !.sess[s].dict = <<>>,
                 !.sess[s].next = m.unused_sessions,
                 !.unused_sessions = s]
  ELSE [m EXCEPT !.sessions[b] = m.sess[s].next,
                 !.sessions_in_use = m.sessions_in_use - 1,
                 !.sess[s].dict = <<>>,
                 !.sess[s].next = m.unused_sessions,
                 !.unused_sessions = s]

\* The chain walk of session_do_destroy and get_session_object.
LookupSess(m, sessid) ==
  FindSess(m, NULL, m.sessions[BucketOf(sessid)], sessid)

\* A destroy that leaves the aliases of the session in the alias index.
DestroySessAt_mutant(m, b, f) ==
  IF f.cur = NULL THEN [m |-> m, err |-> "NOT_FOUND"]
  ELSE [m |-> UnlinkSession(m, b, f.prev, f.cur), err |-> "OK"]

session_do_destroy_mutant(m, sessid) ==
  IF ~ValidId(sessid) THEN [m |-> m, err |-> "INV_NAME"]
  ELSE DestroySessAt_mutant(m, BucketOf(sessid), LookupSess(m, sessid))

\* session_do_destroy once the aliases are dealt with (r is what the loop
\* over the aliases returned).
DestroyAfterAliases(r, b, f) ==
  IF r.err # "OK" THEN r
  ELSE [m |-> UnlinkSession(r.m, b, f.prev, f.cur), err |-> "OK"]

\* session_do_destroy after its chain walk has returned f.
DestroySessAt(m, b, f) ==
  IF f.cur = NULL THEN [m |-> m, err |-> "NOT_FOUND"]
  ELSE DestroyAfterAliases(RemoveAliasesStrict(m, f.cur, 1), b, f)

\* session_do_destroy (sessid, with_lock); both callers are one critical
\* section, so with_lock does not show in the result.
session_do_destroy(m, sessid) ==
  IF ~ValidId(sessid) THEN [m |-> m, err |-> "INV_NAME"]
  ELSE DestroySessAt(m, BucketOf(sessid), LookupSess(m, sessid))

\* A lookup that does not refresh the access time.
LookupAt_mutant(m, sessid, f, t) ==
  IF f.cur = NULL THEN [m |-> m, err |-> "NOT_FOUND", sess |-> NULL]
  ELSE IF check_ttl(m.sess[f.cur], t)
  THEN [m |-> session_do_destroy(m, sessid).m, err |-> "NOT_FOUND",
        sess |-> NULL]
  ELSE [m |-> m, err |-> "OK", sess |-> f.cur]

get_session_object_mutant(m, sessid, t) ==
  IF ~ValidId(sessid) THEN [m |-> m, err |-> "INV_NAME", sess |-> NULL]
  ELSE LookupAt_mutant(m, sessid, LookupSess(m, sessid), t)

\* get_session_object after its chain walk has returned f.
LookupAt(m, sessid, f, t) ==
  IF f.cur = NULL THEN [m |-> m, err |-> "NOT_FOUND", sess |-> NULL]
  ELSE IF check_ttl(m.sess[f.cur], t)
  THEN [m |-> session_do_destroy(m, sessid).m, err |-> "NOT_FOUND",
        sess |-> NULL]
  ELSE [m |-> [m EXCEPT !.sess[f.cur].accessed = t], err |-> "OK",
        sess |-> f.cur]

\* get_session_object (sessid, r_sess) at time t: the session object with
\* its access time refreshed, or NOT_FOUND after destroying an expired one.
get_session_object(m, sessid, t) ==
  IF ~ValidId(sessid) THEN [m |-> m, err |-> "INV_NAME", sess |-> NULL]
  ELSE LookupAt(m, sessid, LookupSess(m, sessid), t)

\* The block at "leave:" of session_create_alias for an alias object that
\* was not malloced: clear its back reference and push it on the free list.
\* fault: the write through a pointer outside the store's objects traps.
PushAliasBack(m, alias, fault) ==
  IF alias = NULL THEN m
  ELSE IF alias = WILD /\ fault THEN [m EXCEPT !.proc = "crashed"]
  ELSE [m EXCEPT !.al[alias].sess = NULL,
                 !.al[alias].next = m.unused_aliases,
                 !.unused_aliases = alias,
                 !.wild_write = m.wild_write \/ alias = WILD]

\* The lowest free slot of session object s, 0 if all are taken.
FreeSlot(m, s) ==
  IF \E i \in Slots : m.sess[s].aliases[i] = NULL
  THEN Min({i \in Slots : m.sess[s].aliases[i] = NULL})
  ELSE 0

\* A store that takes any number of sessions.
NoLimit(m) == TRUE

\* "else if (sessions_in_use < MAX_SESSIONS)" of session_create.
BelowLimit(m) == m.sessions_in_use < MAX_SESSIONS

\* The session object session_create uses: the head of the free list, or a
\* new one from calloc.
SessionToUse(m) ==
  IF m.unused_sessions # NULL THEN m.unused_sessions
  ELSE Min(SObjs \ m.salloc)

\* The store after session_create has taken that object.
TakeSession(m, s) ==
  IF m.unused_sessions # NULL
  THEN [m EXCEPT !.unused_sessions = m.sess[s].next, !.sess[s].next = NULL]
  ELSE [m EXCEPT !.salloc = @ \cup {s}, !.sess[s] = ZeroSess]

\* "leave:" of session_create with sess still set: release the object or
\* push it back.
GiveBack(m, s, pooled) ==
  IF pooled
  THEN [m EXCEPT !.sess[s].dict = <<>>,
                 !.sess[s].next = m.unused_sessions,
                 !.unused_sessions = s]
  ELSE [m EXCEPT !.salloc = @ \ {s}, !.sess[s] = ZeroSess]

\* session_create from the nonce to "clear the other fields".
InitSession(m, s, t, ttl) ==
  [m EXCEPT !.next_id = m.next_id + 1,
            !.sess[s].sessid = m.next_id,
            !.sess[s].created = t,
            !.sess[s].accessed = t,
            !.sess[s].ttl = IF ttl > 0 THEN ttl ELSE DEFAULT_TTL,
            !.sess[s].dict = <<>>,
            !.sess[s].aliases = [i \in Slots |-> NULL]]

\* "Put the session into the hash table" of session_create.
EnterSession(m, s, list) ==
  [m EXCEPT !.sess[s].dict = list,
            !.sess[s].next = m.sessions[BucketOf(m.sess[s].sessid)],
            !.sessions[BucketOf(m.sess[s].sessid)] = s,
            !.sessions_in_use = m.sessions_in_use + 1]

\* session_create after "Init the dictionary" (p is what the loop returned).
CreateFilled(m, s, pooled, p) ==
  IF p.err # "OK"
  THEN [m |-> GiveBack(m, s, pooled), err |-> p.err, sessid |-> 0]
  ELSE [m |-> EnterSession(m, s, p.list), err |-> "OK",
        sessid |-> m.sess[s].sessid]

\* session_create with the object s it has taken.
CreateWith(m, s, pooled, ttl, dict, t, fail) ==
  IF fail = "zb32"
  THEN [m |-> GiveBack(m, s, pooled), err |-> "ENOMEM", sessid |-> 0]
  ELSE CreateFilled(InitSession(m, s, t, ttl), s, pooled,
                    PutAll(<<>>, dict, 1, fail = "put"))

\* session_create (ttl, dict, r_sessid) at time t.  fail names the
\* allocation that fails: "calloc", "zb32" (zb32_encode), "put"
\* (keyvalue_put) or "none".
session_create(m, ttl0, dict, t, fail) ==
  IF m.unused_sessions = NULL /\ ~BelowLimit(m)
  THEN [m |-> m, err |-> "LIMIT_REACHED", sessid |-> 0]
  ELSE IF m.unused_sessions = NULL /\ fail = "calloc"
  THEN [m |-> m, err |-> "ENOMEM", sessid |-> 0]
  ELSE CreateWith(TakeSession(m, SessionToUse(m)), SessionToUse(m),
                  m.unused_sessions # NULL,
                  IF ttl0 > MAX_SESSION_LIFETIME THEN MAX_SESSION_LIFETIME
                  ELSE ttl0,
                  dict, t, fail)

\* The alias object session_create_alias uses.
AliasToUse(m) ==
  IF m.unused_aliases # NULL THEN m.unused_aliases
  ELSE Min(AObjs \ m.aalloc)

\* The store after session_create_alias has taken that object.
TakeAlias(m, alias) ==
  IF m.unused_aliases # NULL
  THEN [m EXCEPT !.unused_aliases = m.al[alias].next, !.al[alias].next = NULL]
  ELSE [m EXCEPT !.aalloc = @ \cup {alias}, !.al[alias] = ZeroAlias]

\* session_create_alias from the nonce to "Put the alias into the hash
\* table".
EnterAlias(m, alias, s, aidx) ==
  [m EXCEPT !.next_id = m.next_id + 1,
            !.al[alias].aliasid = m.next_id,
            !.al[alias].sess = s,
            !.sess[s].aliases[aidx] = alias,
            !.al[alias].next = m.aliases[BucketOf(m.next_id)],
            !.aliases[BucketOf(m.next_id)] = alias]

\* session_create_alias with the alias object it has taken.
AliasWith(m, alias, pooled, s, aidx, fail) ==
  IF fail = "zb32"
  THEN [m |-> IF pooled THEN PushAliasBack(m, alias, FALSE)
              ELSE [m EXCEPT !.aalloc = @ \ {alias}],
        err |-> "ENOMEM", aliasid |-> 0]
  ELSE [m |-> EnterAlias(m, alias, s, aidx), err |-> "OK",
        aliasid |-> m.next_id]

\* session_create_alias for session object s with free slot aidx (0: none).
\* garbage is the value the uninitialized local "alias"
\* (session_alias_t alias = alias) holds when the LIMIT_REACHED path reaches
\* "leave:"; fault says whether a write through it traps.
AliasIn(m, s, aidx, fail, garbage, fault) ==
  IF aidx = 0
  THEN [m |-> PushAliasBack(m, garbage, fault), err |-> "LIMIT_REACHED",
        aliasid |-> 0]
  ELSE IF m.unused_aliases = NULL /\ fail = "calloc"
  THEN [m |-> m, err |-> "ENOMEM", aliasid |-> 0]
  ELSE AliasWith(TakeAlias(m, AliasToUse(m)), AliasToUse(m),
                 m.unused_aliases # NULL, s, aidx, fail)

\* session_create_alias after get_session_object has returned g.
AliasFor(g, fail, garbage, fault) ==
  IF g.err # "OK" THEN [m |-> g.m, err |-> g.err, aliasid |-> 0]
  ELSE AliasIn(g.m, g.sess, FreeSlot(g.m, g.sess), fail, garbage, fault)

\* session_create_alias (sessid, r_aliasid) at time t.  fail is "calloc",
\* "zb32" or "none".
session_create_alias(m, sessid, t, fail, garbage, fault) ==
  AliasFor(get_session_object(m, sessid, t), fail, garbage, fault)

\* session_get_sessid after its chain walk has returned f.
SessidAt(m, f, oom) ==
  IF f.cur = HANG
  THEN [m |-> [m EXCEPT !.proc = "hung"], err |-> "NONE", sessid |-> 0]
  ELSE IF f.cur = NULL \/ m.al[f.cur].sess = NULL
  THEN [m |-> m, err |-> "NOT_FOUND", sessid |-> 0]
  ELSE IF oom THEN [m |-> m, err |-> "ENOMEM", sessid |-> 0]
  ELSE [m |-> m, err |-> "OK", sessid |-> m.sess[m.al[f.cur].sess].sessid]

\* session_get_sessid (aliasid, r_sessid); oom: xtrystrdup fails.
session_get_sessid(m, aliasid, oom) ==
  IF ~ValidId(aliasid) THEN [m |-> m, err |-> "INV_NAME", sessid |-> 0]
  ELSE SessidAt(m, FindAlias(m, NULL, m.aliases[BucketOf(aliasid)], aliasid,
                             WILD),
                oom)

\* session_put after its loop over the dictionary has returned p.
PutDone(m, s, p) == [m |-> [m EXCEPT !.sess[s].dict = p.list], err |-> p.err]

\* session_put after get_session_object has returned g.
PutInto(g, dict, oom) ==
  IF g.err # "OK" THEN [m |-> g.m, err |-> g.err]
  ELSE PutDone(g.m, g.sess, PutAll(g.m.sess[g.sess].dict, dict, 1, oom))

\* session_put (sessid, dict) at time t; oom: a keyvalue_put fails.
session_put(m, sessid, dict, t, oom) ==
  PutInto(get_session_object(m, sessid, t), dict, oom)

\* session_get after its loop over the dictionary has returned p.
GetDone(m, p) == [m |-> m, err |-> p.err, dict |-> p.list]

\* session_get after get_session_object has returned g.
GetFrom(g, oom) ==
  IF g.err # "OK" THEN [m |-> g.m, err |-> g.err, dict |-> <<>>]
  ELSE GetDone(g.m, PutAll(<<>>, g.m.sess[g.sess].dict, 1, oom))

\* session_get (sessid, dictp) at time t into an empty dictionary.
session_get(m, sessid, t, oom) ==
  GetFrom(get_session_object(m, sessid, t), oom)

\* The first expired session of a chain: [prev, cur].
RECURSIVE FirstExpired(_, _, _, _)
FirstExpired(m, prev, p, t) ==
  IF p = NULL THEN [prev |-> prev, cur |-> NULL]
  ELSE IF check_ttl(m.sess[p], t) THEN [prev |-> prev, cur |-> p]
  ELSE FirstExpired(m, p, m.sess[p].next, t)

\* The scan of one bucket by session_housekeeping, started again after
\* each session it destroys (f is the first expired session of the bucket,
\* m1 the store once its aliases are removed).
RECURSIVE SweepBucket(_, _, _)
RECURSIVE SweepAt(_, _, _, _)
RECURSIVE SweepOn(_, _, _, _)
SweepOn(m1, b, t, f) ==
  IF m1.proc # "run" THEN m1
  ELSE SweepBucket(UnlinkSession(m1, b, f.prev, f.cur), b, t)

SweepAt(m, b, t, f) ==
  IF f.cur = NULL THEN m
  ELSE SweepOn(RemoveAliasesLax(m, f.cur, 1), b, t, f)

SweepBucket(m, b, t) ==
  IF m.proc # "run" THEN m
  ELSE SweepAt(m, b, t, FirstExpired(m, NULL, m.sessions[b], t))

RECURSIVE SweepFrom(_, _, _)
SweepFrom(m, b, t) ==
  IF b >= NBuckets THEN m ELSE SweepFrom(SweepBucket(m, b, t), b + 1, t)

\* session_housekeeping with now = t.
session_housekeeping(m, t) == SweepFrom(m, 0, t)

\* ------------------------------------------------- the clients' view
\* The session object indexed under id (NULL if none).
SessObjOf(m, id) ==
  IF ValidId(id) THEN FindSess(m, NULL, m.sessions[BucketOf(id)], id).cur
  ELSE NULL

\* Whether a session with this id is reachable through the session index.
InSessIndex(m, id) == SessObjOf(m, id) # NULL

Ids == 1..MaxIdsB

\* What the clients know of an id: whether it names a session or an alias
\* (kind), when the session was created and with which requested ttl,
\* whether a call has named it or one of its aliases other than a get at the
\* time of creation or a get answered NOT_FOUND (used), the session an alias
\* was created for (owner), and whether a destroy of it has succeeded (gone).
NoHist == [kind |-> "none", created |-> 0, ttl |-> 0, used |-> FALSE,
           owner |-> 0, gone |-> FALSE]

\* The session a call with this argument concerns.
Concerns(id) ==
  IF id \notin Ids THEN 0
  ELSE IF hist[id].kind = "alias" THEN hist[id].owner
  ELSE id

\* The effect of a call on what the clients know.
Seen(op, arg, res) ==
  LET sid == Concerns(arg)
      h1 == IF arg \in Ids /\ hist[arg].kind # "none"
            THEN [hist EXCEPT ![arg].gone =
                    @ \/ (op \in {"destroy", "dealias"} /\ res = "OK")]
            ELSE hist
  IN IF sid \in Ids /\ hist[sid].kind = "sess"
     THEN [h1 EXCEPT ![sid].used =
                        \/ @
                        \/ op # "get"
                        \/ now # hist[sid].created /\ res # "NOT_FOUND"]
     ELSE h1

Running == proc = "run"

\* ----------------------------------------------------------- the actions
\* What a call that returned r leaves behind: the store and the clients'
\* knowledge.
Returned(r, op, id) ==
  /\ SetMem(r.m)
  /\ hist' = Seen(op, id, r.err)

\* SESSION create: session_create, which returned r.
Created(r, ttl, fail) ==
  /\ fail = "none" \/ r.err = "ENOMEM"
  /\ SetMem(r.m)
  /\ hist' = IF r.err = "OK"
             THEN [hist EXCEPT ![r.sessid] =
                     [NoHist EXCEPT !.kind = "sess", !.created = now,
                                    !.ttl = ttl]]
             ELSE hist

\* lim is the number of ids and slim the number of session objects of the
\* run.
Create(lim, slim, ttl, d, fail) ==
  /\ Running
  /\ next_id <= lim
  /\ \/ unused_sessions # NULL
     \/ Cardinality(salloc) < slim
     \/ ~(sessions_in_use < MAX_SESSIONS)
  /\ Created(session_create(Mem, ttl, d, now, fail), ttl, fail)
  /\ UNCHANGED <<now, ticks, strays>>
  /\ UNCHANGED restOfStore

\* SESSION destroy: session_destroy.
Destroy(id) ==
  /\ Running
  /\ Returned(session_do_destroy(Mem, id), "destroy", id)
  /\ UNCHANGED <<now, ticks, strays>>
  /\ UNCHANGED restOfStore

\* SESSION get: session_get.
Get(id, oom) ==
  /\ Running
  /\ ~oom \/ session_get(Mem, id, now, oom).err = "ENOMEM"
  /\ Returned(session_get(Mem, id, now, oom), "get", id)
  /\ UNCHANGED <<now, ticks, strays>>
  /\ UNCHANGED restOfStore

\* SESSION put: session_put.
Put(id, d, oom) ==
  /\ Running
  /\ ~oom \/ session_put(Mem, id, d, now, oom).err = "ENOMEM"
  /\ Returned(session_put(Mem, id, d, now, oom), "put", id)
  /\ UNCHANGED <<now, ticks, strays>>
  /\ UNCHANGED restOfStore

\* What the clients learn from a create_alias that returned r: the error
\* code unless the process stopped, and the new alias.
AliasSeen(r, id) ==
  IF r.err = "OK"
  THEN [Seen("alias", id, "OK") EXCEPT ![r.aliasid] =
          [NoHist EXCEPT !.kind = "alias", !.created = now, !.owner = id]]
  ELSE IF r.m.proc = "run" THEN Seen("alias", id, r.err)
  ELSE Seen("alias", id, "NONE")

\* SESSION alias: session_create_alias, which returned r.
Aliased(r, lim, id, fail, garbage, fault) ==
  /\ next_id <= lim \/ r.err # "OK"
  /\ fail = "none" \/ r.err = "ENOMEM"
  /\ (garbage = NULL /\ ~fault) \/ r.err = "LIMIT_REACHED"
  /\ SetMem(r.m)
  /\ hist' = AliasSeen(r, id)

Alias(lim, id, fail, garbage, fault) ==
  /\ Running
  /\ fault => garbage = WILD
  /\ garbage # NULL => strays < MaxStray
  /\ strays' = IF garbage # NULL THEN strays + 1 ELSE strays
  /\ Aliased(session_create_alias(Mem, id, now, fail, garbage, fault),
             lim, id, fail, garbage, fault)
  /\ UNCHANGED <<now, ticks>>
  /\ UNCHANGED restOfStore

\* SESSION dealias: session_destroy_alias.
Dealias(id) ==
  /\ Running
  /\ Returned(do_destroy_alias(Mem, id, NULL), "dealias", id)
  /\ UNCHANGED <<now, ticks, strays>>
  /\ UNCHANGED restOfStore

\* SESSION sessid: session_get_sessid.
Sessid(id, oom) ==
  /\ Running
  /\ ~oom \/ session_get_sessid(Mem, id, oom).err = "ENOMEM"
  /\ Returned(session_get_sessid(Mem, id, oom), "sessid", id)
  /\ UNCHANGED <<now, ticks, strays>>
  /\ UNCHANGED restOfStore

\* The wall clock advances.  While the sessions of the other clients are
\* in the index the run stays within their lifetime.
Tick(d) ==
  /\ ticks < MaxTicks
  /\ bulk > 0 => now + d <= MAX_SESSION_LIFETIME
  /\ now' = now + d
  /\ ticks' = ticks + 1
  /\ UNCHANGED <<sess, salloc, sessions, unused_sessions, sessions_in_use,
                 bulk, al, aalloc, aliases, unused_aliases, next_id, proc,
                 wild_write, strays, hist>>
  /\ UNCHANGED restOfStore

\* session_housekeeping: the time is sampled delay seconds before the lock
\* is taken and the buckets are swept.
Housekeeping(delay) ==
  /\ Running
  /\ delay <= now
  /\ SetMem(session_housekeeping(Mem, now - delay))
  /\ UNCHANGED <<now, ticks, strays, hist>>
  /\ UNCHANGED restOfStore

\* ------------------------------------------------------------- the daemon
Uids == 1..MaxUid
Workers == 1..MaxConn

\* The table with all commands: name and admin_required.
cmdtbl ==
  << [name |-> "SESSION", admin_required |-> FALSE],
     [name |-> "CARDTOKEN", admin_required |-> FALSE],
     [name |-> "CHARGECARD", admin_required |-> FALSE],
     [name |-> "PPCHECKOUT", admin_required |-> FALSE],
     [name |-> "SEPAPREORDER", admin_required |-> FALSE],
     [name |-> "CHECKAMOUNT", admin_required |-> FALSE],
     [name |-> "PPIPNHD", admin_required |-> FALSE],
     [name |-> "GETINFO", admin_required |-> FALSE],
     [name |-> "PING", admin_required |-> FALSE],
     [name |-> "COMMITPREORDER", admin_required |-> TRUE],
     [name |-> "GETPREORDER", admin_required |-> TRUE],
     [name |-> "LISTPREORDER", admin_required |-> TRUE],
     [name |-> "SHUTDOWN", admin_required |-> TRUE],
     [name |-> "HELP", admin_required |-> FALSE] >>

\* What a command handler does besides writing its reply: it uses the
\* session store, appends to the journal, reads or writes the preorder
\* database, calls a payment gateway, or asks for the shutdown.
EffectsOf(name) ==
  CASE name = "SESSION" -> {"session"}
    [] name = "CARDTOKEN" -> {"gateway"}
    [] name = "CHARGECARD" -> {"gateway", "journal"}
    [] name = "PPCHECKOUT" -> {"session", "gateway", "journal"}
    [] name = "SEPAPREORDER" -> {"db"}
    [] name = "PPIPNHD" -> {"gateway", "journal"}
    [] name = "COMMITPREORDER" -> {"db", "journal"}
    [] name = "GETPREORDER" -> {"db"}
    [] name = "LISTPREORDER" -> {"db"}
    [] name = "SHUTDOWN" -> {"shutdown"}
    [] OTHER -> {}

\* A command line is the word it starts with and what follows the word:
\* the end of the line, a blank, or another character.
CmdWords == {cmdtbl[i].name : i \in DOMAIN cmdtbl} \cup {"shutdown", "NOP"}
CmdLines == [head : CmdWords, next : {"end", "space", "char"}]

\* has_leading_keyword (string, keyword).
has_leading_keyword(string, keyword) ==
  string.head = keyword /\ string.next \in {"end", "space"}

\* The loop over cmdtbl in connection_handler: the index of the first
\* entry whose name leads the command line, 0 if there is none.
CmdIdx(line) ==
  IF \E i \in DOMAIN cmdtbl : has_leading_keyword(line, cmdtbl[i].name)
  THEN Min({i \in DOMAIN cmdtbl : has_leading_keyword(line, cmdtbl[i].name)})
  ELSE 0

\* The loops over opt.allowed_uids and opt.allowed_admin_uids.
InTable(tbl, uid) == \E i \in 1..Len(tbl) : tbl[i] = uid

\* What a peer sends and what happens to it on the way: es_fdopen_nc fails
\* ("fdopen"), protocol_read_request fails with an error code, or the
\* request is read and has this command line.
ReadErrors == {"EOF", "TRUNCATED", "INV_NAME"}
Requests ==
  [kind : {"fdopen"}, err : {"none"}, line : {[head |-> "NOP", next |-> "end"]}]
    \cup [kind : {"unread"}, err : ReadErrors,
          line : {[head |-> w, next |-> "end"] : w \in {"SHUTDOWN", "PING"}}]
    \cup [kind : {"read"}, err : {"none"}, line : CmdLines]

\* Nothing is written to the peer.
NoReply == [err |-> "none", desc |-> "", eol |-> FALSE]

\* An answer that lets a peer without rights run the handler.
AdminGate_open(admins, uid, entry) ==
  [reply |-> [err |-> "handler", desc |-> "", eol |-> TRUE],
   handler |-> entry.name]

\* The admin check of connection_handler for the table entry found, and the
\* call of the handler.
AdminGate(admins, uid, entry) ==
  IF entry.admin_required /\ ~InTable(admins, uid)
  THEN [reply |-> [err |-> "FORBIDDEN", desc |-> "User is not an admin",
                   eol |-> TRUE],
        handler |-> "none"]
  ELSE [reply |-> [err |-> "handler", desc |-> "", eol |-> TRUE],
        handler |-> entry.name]

\* connection_handler from the command lookup on.
Dispatch(admins, uid, cmdidx) ==
  IF cmdidx = 0
  THEN [reply |-> [err |-> "1", desc |-> "Unknown command", eol |-> TRUE],
        handler |-> "none"]
  ELSE AdminGate(admins, uid, cmdtbl[cmdidx])

\* A check of the peer that lets everyone in.
UidGate_open(allowed, uid) == TRUE

\* The test of the peer's uid against opt.allowed_uids.
UidGate(allowed, uid) == Len(allowed) = 0 \/ InTable(allowed, uid)

\* connection_handler (conn, uid): the reply written to the peer and the
\* name of the handler that was called ("none" if none was).
connection_handler(allowed, admins, uid, req) ==
  IF req.kind = "fdopen" THEN [reply |-> NoReply, handler |-> "none"]
  ELSE IF req.kind = "unread"
  THEN [reply |-> [err |-> req.err, desc |-> "", eol |-> FALSE],
        handler |-> "none"]
  ELSE IF ~UidGate(allowed, uid)
  THEN [reply |-> [err |-> "EPERM", desc |-> "User not allowed",
                   eol |-> TRUE],
        handler |-> "none"]
  ELSE Dispatch(admins, uid, CmdIdx(req.line))

\* handle_signal (signo) with shutdown_pending = sp: the new counter and
\* how the process exits ("" if it does not).
handle_signal_graceful(signo, sp) ==
  IF sp + 1 > 2 THEN [sp |-> sp + 1, exit |-> "forced"]
  ELSE [sp |-> sp + 1, exit |-> ""]

handle_signal(signo, sp) ==
  IF signo = "TERM"
  THEN IF sp + 1 > 2 THEN [sp |-> sp + 1, exit |-> "forced"]
       ELSE [sp |-> sp + 1, exit |-> ""]
  ELSE IF signo = "INT" THEN [sp |-> sp, exit |-> "sigint"]
  ELSE [sp |-> sp, exit |-> ""]

\* The shutdown test at the head of server_loop.
ShutdownReady(sp, active) == sp > 0 /\ active = 0

\* shutdown_server that sends no signal.
shutdown_server_mute(handler, pending) == pending

\* shutdown_server () as called by the handler of SHUTDOWN: kill (getpid(),
\* SIGTERM); the signal stays pending until the main loop takes it.
shutdown_server(handler, pending) ==
  IF handler = "SHUTDOWN" THEN pending \cup {"TERM"} ELSE pending

\* A connection object that is not in use.
FreeConn == [st |-> "free", uid |-> 0,
             req |-> [kind |-> "none", err |-> "none",
                      line |-> [head |-> "NOP", next |-> "end"]],
             reply |-> NoReply, handler |-> "none", did |-> {}]

Serving == dstate = "serving"

\* Option --allow-uid (also_admin = FALSE) or --admin-uid: add_allowed_uid;
\* the tables of the daemon have room for more entries than a run adds.
AddAllowedUid(uid, also_admin) ==
  /\ dstate = "options"
  /\ Len(allowed_uids) < MaxOpts
  /\ allowed_uids' = Append(allowed_uids, uid)
  /\ allowed_admin_uids' = IF also_admin
                           THEN Append(allowed_admin_uids, uid)
                           ELSE allowed_admin_uids
  /\ UNCHANGED <<dstate, exit_how, shutdown_pending, sig_pending, nsignals,
                 active_connections, conn, effects>>
  /\ UNCHANGED restOfDaemon

\* main enters server_loop.
StartServer ==
  /\ dstate = "options"
  /\ dstate' = "serving"
  /\ UNCHANGED <<exit_how, allowed_uids, allowed_admin_uids, shutdown_pending,
                 sig_pending, nsignals, active_connections, conn, effects>>
  /\ UNCHANGED restOfDaemon

\* server_loop: npth_accept, new_connection_obj and npth_create.
Accept(w) ==
  /\ Serving
  /\ shutdown_pending = 0
  /\ conn[w].st \in {"free", "closed"}
  /\ conn' = [conn EXCEPT ![w] = [FreeConn EXCEPT !.st = "spawned"]]
  /\ UNCHANGED <<dstate, exit_how, allowed_uids, allowed_admin_uids,
                 shutdown_pending, sig_pending, nsignals, active_connections,
                 effects>>
  /\ UNCHANGED restOfDaemon

\* connection_thread up to the call of connection_handler: without the
\* peer's credentials the connection is released at once.
WorkerStart(w, uid, credfail) ==
  /\ Serving
  /\ conn[w].st = "spawned"
  /\ conn' = [conn EXCEPT ![w] = IF credfail
                                 THEN [FreeConn EXCEPT !.st = "closed"]
                                 ELSE [@ EXCEPT !.st = "active", !.uid = uid]]
  /\ active_connections' = IF credfail THEN active_connections
                           ELSE active_connections + 1
  /\ UNCHANGED <<dstate, exit_how, allowed_uids, allowed_admin_uids,
                 shutdown_pending, sig_pending, nsignals, effects>>
  /\ UNCHANGED restOfDaemon

\* connection_handler, which returned r for the request req.
Served(w, req, r) ==
  /\ conn' = [conn EXCEPT ![w] = [@ EXCEPT !.st = "served", !.req = req,
                                           !.reply = r.reply,
                                           !.handler = r.handler,
                                           !.did = EffectsOf(r.handler)]]
  /\ effects' = effects \cup (EffectsOf(r.handler) \ {"shutdown"})
  /\ sig_pending' = shutdown_server(r.handler, sig_pending)

WorkerServe(w, req) ==
  /\ Serving
  /\ conn[w].st = "active"
  /\ Served(w, req, connection_handler(allowed_uids, allowed_admin_uids,
                                       conn[w].uid, req))
  /\ UNCHANGED <<dstate, exit_how, allowed_uids, allowed_admin_uids,
                 shutdown_pending, nsignals, active_connections>>
  /\ UNCHANGED restOfDaemon

\* connection_thread after connection_handler has returned.
WorkerFinish(w) ==
  /\ Serving
  /\ conn[w].st = "served"
  /\ conn' = [conn EXCEPT ![w].st = "closed"]
  /\ active_connections' = active_connections - 1
  /\ UNCHANGED <<dstate, exit_how, allowed_uids, allowed_admin_uids,
                 shutdown_pending, sig_pending, nsignals, effects>>
  /\ UNCHANGED restOfDaemon

\* Someone sends SIGTERM or SIGINT to the daemon.
Signal(signo) ==
  /\ Serving
  /\ nsignals < MaxSignals
  /\ nsignals' = nsignals + 1
  /\ sig_pending' = sig_pending \cup {signo}
  /\ UNCHANGED <<dstate, exit_how, allowed_uids, allowed_admin_uids,
                 shutdown_pending, active_connections, conn, effects>>
  /\ UNCHANGED restOfDaemon

\* server_loop after npth_pselect: handle_signal for a pending signal,
\* which returned r.
Handled(r) ==
  /\ shutdown_pending' = r.sp
  /\ exit_how' = r.exit
  /\ dstate' = IF r.exit # "" THEN "exited" ELSE dstate

HandleSignal(signo) ==
  /\ Serving
  /\ signo \in sig_pending
  /\ sig_pending' = sig_pending \ {signo}
  /\ Handled(handle_signal(signo, shutdown_pending))
  /\ UNCHANGED <<allowed_uids, allowed_admin_uids, nsignals,
                 active_connections, conn, effects>>
  /\ UNCHANGED restOfDaemon

\* server_loop: the shutdown test at the head of the loop succeeds and the
\* process exits.
ShutdownTest ==
  /\ Serving
  /\ ShutdownReady(shutdown_pending, active_connections)
  /\ dstate' = "exited"
  /\ exit_how' = "drained"
  /\ UNCHANGED <<allowed_uids, allowed_admin_uids, shutdown_pending,
                 sig_pending, nsignals, active_connections, conn, effects>>
  /\ UNCHANGED restOfDaemon

\* The daemon before its options are read.
DaemonIdle ==
  /\ dstate = "options"
  /\ exit_how = ""
  /\ allowed_uids = <<>>
  /\ allowed_admin_uids = <<>>
  /\ shutdown_pending = 0
  /\ sig_pending = {}
  /\ nsignals = 0
  /\ active_connections = 0
  /\ conn = [w \in Workers |-> FreeConn]
  /\ effects = {}

\* ------------------------------------------------------------ the journal
\* journal.c.  A record is composed in a memory stream and handed to
\* write_log as one buffer; the buffer reaches the file in NChunks pieces
\* (the stdio buffer is flushed whenever it is full and at fflush).
Threads == 1..MaxThreads
LockNames == {"sessions_lock", "logfile_lock", "preorder_db_lock",
              "account_db_lock", "my_lock"}
NoLocks == [l \in LockNames |-> 0]
Chunks == 1..NChunks

\* get_current_time: gmtime and snprintf "%04d%02d%02dT%02d%02d%02d"; the
\* date block (8 characters) and the time block of the timestamp.
get_current_time(t) == <<t \div SecsPerDay, t % SecsPerDay>>

\* The first eight characters of a record.
Prefix8(buffer) == buffer.ts[1]

\* write_log that opens a new file only for a later date.
Rotates_forward(lf, buffer) == ~lf.fp \/ lf.suffix < Prefix8(buffer)

\* write_log: !logfile.fp || strncmp (logfile.suffix, buffer, 8).
Rotates(lf, buffer) == ~lf.fp \/ lf.suffix # Prefix8(buffer)

\* severe_error (): exit (4).
severe_error == [state |-> "exited", how |-> "severe", code |-> 4]

NoRec == [id |-> 0, ts |-> <<0, 0>>]
IdleWriter == [pc |-> "idle", rec |-> NoRec, k |-> 0]

\* The process ends as e says.
ExitAs(e) ==
  /\ dstate' = e.state
  /\ exit_how' = e.how
  /\ exit_code' = e.code

Alive == dstate # "exited" /\ exit_code = -1

\* start_record .. write_and_close_fp: the record is complete in memory,
\* with the time of start_record, when write_log is called.
JCompose(t) ==
  /\ Alive
  /\ jw[t].pc = "idle"
  /\ jnext <= MaxRecs
  /\ jw' = [jw EXCEPT ![t] = [pc |-> "composed",
                              rec |-> [id |-> jnext,
                                       ts |-> get_current_time(now)],
                              k |-> 0]]
  /\ jnext' = jnext + 1
  /\ UNCHANGED <<logfile, jfiles, procVars, tokenVars, progVars, execVars,
                 restVars>>
  /\ UNCHANGED <<storeVars, daemonVars>>

\* write_log without a journal file name: the record is dropped.
JSkip(t) ==
  /\ Alive
  /\ jw[t].pc = "composed"
  /\ ~logfile.basename
  /\ jw' = [jw EXCEPT ![t] = IdleWriter]
  /\ UNCHANGED <<logfile, jfiles, jnext, procVars, tokenVars,
                 progVars, execVars, restVars>>
  /\ UNCHANGED <<storeVars, daemonVars>>

\* write_log: npth_mutex_lock (&logfile_lock).
JLock(t) ==
  /\ Alive
  /\ jw[t].pc = "composed"
  /\ logfile.basename
  /\ locks["logfile_lock"] = 0
  /\ locks' = [locks EXCEPT !["logfile_lock"] = t]
  /\ jw' = [jw EXCEPT ![t].pc = "locked"]
  /\ UNCHANGED <<exit_code, logfile, jfiles, jnext, tokenVars,
                 progVars, execVars, restVars>>
  /\ UNCHANGED <<storeVars, daemonVars>>

\* write_log: the file of the record's date is made the open one; fclose
\* or fopen may fail, and then the lock is released and severe_error called.
JOpen(t, closefail, openfail) ==
  /\ Alive
  /\ jw[t].pc = "locked"
  /\ IF ~Rotates(logfile, jw[t].rec)
     THEN /\ jw' = [jw EXCEPT ![t].pc = "open", ![t].k = 1]
          /\ UNCHANGED <<logfile, locks, exit_code, dstate, exit_how>>
     ELSE IF logfile.fp /\ closefail
     THEN /\ locks' = [locks EXCEPT !["logfile_lock"] = 0]
          /\ jw' = [jw EXCEPT ![t].pc = "failed"]
          /\ ExitAs(severe_error)
          /\ UNCHANGED logfile
     ELSE IF openfail
     THEN /\ logfile' = [logfile EXCEPT !.suffix = Prefix8(jw[t].rec),
                                        !.fp = FALSE]
          /\ locks' = [locks EXCEPT !["logfile_lock"] = 0]
          /\ jw' = [jw EXCEPT ![t].pc = "failed"]
          /\ ExitAs(severe_error)
     ELSE /\ logfile' = [logfile EXCEPT !.suffix = Prefix8(jw[t].rec),
                                        !.fp = TRUE]
          /\ jw' = [jw EXCEPT ![t].pc = "open", ![t].k = 1]
          /\ UNCHANGED <<locks, exit_code, dstate, exit_how>>
  /\ UNCHANGED <<jfiles, jnext, tokenVars, progVars, execVars, restVars>>
  /\ UNCHANGED <<storeVars, daemonRest>>

\* write_log: fputs and fflush; piece k of the buffer goes to the open
\* file, or the write fails, the lock is released and severe_error called.
JPut(t, fail) ==
  /\ Alive
  /\ jw[t].pc = "open"
  /\ IF fail
     THEN /\ locks' = [locks EXCEPT !["logfile_lock"] = 0]
          /\ jw' = [jw EXCEPT ![t].pc = "failed"]
          /\ ExitAs(severe_error)
          /\ UNCHANGED jfiles
     ELSE /\ jfiles' = [jfiles EXCEPT ![logfile.suffix] =
                          Append(@, [id |-> jw[t].rec.id,
                                     date |-> Prefix8(jw[t].rec),
                                     part |-> jw[t].k])]
          /\ jw' = [jw EXCEPT ![t].pc = IF jw[t].k = NChunks
                                        THEN "flushed" ELSE "open",
                              ![t].k = jw[t].k + 1]
          /\ UNCHANGED <<locks, exit_code, dstate, exit_how>>
  /\ UNCHANGED <<logfile, jnext, tokenVars, progVars, execVars, restVars>>
  /\ UNCHANGED <<storeVars, daemonRest>>

\* write_log: npth_mutex_unlock (&logfile_lock) and return.
JUnlock(t) ==
  /\ Alive
  /\ jw[t].pc = "flushed"
  /\ locks' = [locks EXCEPT !["logfile_lock"] = 0]
  /\ jw' = [jw EXCEPT ![t] = [IdleWriter EXCEPT !.rec = jw[t].rec]]
  /\ UNCHANGED <<exit_code, logfile, jfiles, jnext, tokenVars,
                 progVars, execVars, restVars>>
  /\ UNCHANGED <<storeVars, daemonVars>>

\* No journal file is open and no record has been written.
JournalIdle ==
  /\ logfile = [basename |-> TRUE, fp |-> FALSE, suffix |-> 0]
  /\ jfiles = [d \in Days |-> <<>>]
  /\ jnext = 1
  /\ jw = [t \in Threads |-> IdleWriter]

ProcIdle ==
  /\ exit_code = -1
  /\ locks = NoLocks

\* ----------------------------------------------- the PayPal access token
\* paypal.c: get_access_token and the flag that call_paypal sets.  A token
\* is named by the number of the call that fetched it; 0 is the NULL
\* pointer.
NoToken == 0
NoCall == [pc |-> "idle", max_retries |-> 0, request_time |-> 0, nreq |-> 0,
           fresh |-> FALSE, ret |-> NoToken, err |-> "", stale |-> FALSE,
           valid |-> FALSE]

\* What call_paypal can bring back for the request of a token.
Outcomes ==
  [kind : {"neterr", "401", "500", "badtype", "notoken", "nomem"},
   expires_in : {0}]
  \cup [kind : {"ok"}, expires_in : ExpiresIn]

\* The leeway taken off the expiration time.
Leeway(expires_in) ==
  IF expires_in > 1800 THEN 900 ELSE IF expires_in > 600 THEN 300 ELSE 0

\* get_access_token: can the last access token be used at time t?
TokenUsable(tok, seen, t, exp) ==
  tok # NoToken /\ ~seen /\ t + 30 < exp

\* A retry counter that never runs out.
RetriesLeft_endless(max_retries) == TRUE

\* get_access_token: !max_retries-- is false.
RetriesLeft(max_retries) == max_retries # 0

\* call_paypal: the status code of a response; 0 if there was none.
StatusOf(out) ==
  IF out.kind = "neterr" THEN 0
  ELSE IF out.kind = "401" THEN 401
  ELSE IF out.kind = "500" THEN 500
  ELSE 200

\* get_access_token: the error code for what the gateway answered; "" if
\* the token and its expiration time were taken.
FetchError(out) ==
  IF out.kind = "neterr" THEN "NETWORK"
  ELSE IF StatusOf(out) # 200 THEN "EPERM"
  ELSE IF out.kind \in {"badtype", "notoken"} THEN "GENERAL"
  ELSE IF out.kind = "nomem" THEN "ENOMEM"
  ELSE IF out.expires_in < 60 THEN "INV_RESPONSE"
  ELSE ""

\* get_access_token: does the answer replace the cached token?
Replaces(out) == out.kind \in {"nomem", "ok"}

\* leave: the mutex is released and the call returns.
TLeave(t, tok, err) ==
  /\ locks' = [locks EXCEPT !["my_lock"] = 0]
  /\ tk' = [tk EXCEPT ![t].pc = "done", ![t].ret = tok, ![t].err = err,
                      ![t].max_retries = 0, ![t].request_time = 0,
                      ![t].stale = gw.stale,
                      ![t].valid = now + 30 < expires_on]

\* get_access_token is called: npth_mutex_lock (&my_lock).
TCall(t) ==
  /\ Alive
  /\ tk[t].pc \in {"idle", "done"}
  /\ gw.calls < MaxCalls
  /\ locks["my_lock"] = 0
  /\ locks' = [locks EXCEPT !["my_lock"] = t]
  /\ tk' = [tk EXCEPT ![t] = [NoCall EXCEPT !.pc = "retry",
                                            !.max_retries = MaxRetries]]
  /\ gw' = [gw EXCEPT !.calls = gw.calls + 1]
  /\ UNCHANGED <<exit_code, access_token, expires_on,
                 status_unauthorized_seen, journalVars, progVars, execVars,
                 restVars>>
  /\ UNCHANGED <<storeVars, daemonVars>>

\* retry: the cached token is returned, or the flag is cleared and, unless
\* the retries have run out or memory has, a token is asked for.
TCheck(t, nomem) ==
  /\ Alive
  /\ tk[t].pc = "retry"
  /\ IF TokenUsable(access_token, status_unauthorized_seen, now, expires_on)
     THEN /\ TLeave(t, IF nomem THEN NoToken ELSE access_token,
                    IF nomem THEN "ENOMEM" ELSE "")
          /\ gw' = [gw EXCEPT !.handed = gw.handed \/ ~nomem]
          /\ UNCHANGED status_unauthorized_seen
     ELSE /\ status_unauthorized_seen' = FALSE
          /\ UNCHANGED gw
          /\ IF ~RetriesLeft(tk[t].max_retries)
             THEN TLeave(t, NoToken, "TIMEOUT")
             ELSE IF nomem
             THEN /\ locks' = [locks EXCEPT !["my_lock"] = 0]
                  /\ tk' = [tk EXCEPT ![t].pc = "done", ![t].err = "ENOMEM",
                                      ![t].max_retries = 0]
             ELSE /\ tk' = [tk EXCEPT ![t].pc = "http",
                                      ![t].max_retries = @ - 1,
                                      ![t].request_time = now,
                                      ![t].nreq = @ + 1]
                  /\ UNCHANGED locks
  /\ UNCHANGED <<exit_code, access_token, expires_on, journalVars,
                 progVars, execVars, restVars>>
  /\ UNCHANGED <<storeVars, daemonVars>>

\* call_paypal returns out for the request of a token, and get_access_token
\* goes on up to retry or to its return.
TResponse(t, out) ==
  /\ Alive
  /\ tk[t].pc = "http"
  /\ status_unauthorized_seen' = (status_unauthorized_seen
                                  \/ StatusOf(out) = 401)
  /\ access_token' = IF out.kind = "nomem" THEN NoToken
                     ELSE IF out.kind = "ok" THEN gw.calls
                     ELSE access_token
  /\ expires_on' = IF FetchError(out) = ""
                   THEN tk[t].request_time + out.expires_in
                        - Leeway(out.expires_in)
                   ELSE expires_on
  /\ gw' = [gw EXCEPT !.stale = IF Replaces(out) THEN FALSE
                                ELSE @ \/ StatusOf(out) = 401]
  /\ IF FetchError(out) = ""
     THEN /\ tk' = [tk EXCEPT ![t].pc = "retry", ![t].fresh = TRUE]
          /\ UNCHANGED locks
     ELSE /\ locks' = [locks EXCEPT !["my_lock"] = 0]
          /\ tk' = [tk EXCEPT ![t].pc = "done", ![t].err = FetchError(out),
                              ![t].max_retries = 0, ![t].request_time = 0,
                              ![t].fresh = @ \/ Replaces(out)]
  /\ UNCHANGED <<exit_code, journalVars, progVars, execVars, restVars>>
  /\ UNCHANGED <<storeVars, daemonVars>>

\* call_paypal in some thread that uses a token it was given: the gateway
\* answers 401.
Bearer401 ==
  /\ Alive
  /\ gw.handed
  /\ status_unauthorized_seen' = TRUE
  /\ gw' = [gw EXCEPT !.stale = TRUE]
  /\ UNCHANGED <<exit_code, locks, access_token, expires_on, tk,
                 journalVars, progVars, execVars, restVars>>
  /\ UNCHANGED <<storeVars, daemonVars>>

\* Time passes, up to the horizon of the run.
Advance(d, horizon) ==
  /\ now + d <= horizon
  /\ now' = now + d
  /\ UNCHANGED <<ticks, sess, salloc, sessions, unused_sessions,
                 sessions_in_use, bulk, al, aalloc, aliases, unused_aliases,
                 next_id, proc, wild_write, strays, hist>>
  /\ UNCHANGED restOfStore

\* No token has been asked for.
TokenIdle ==
  /\ access_token = NoToken
  /\ expires_on = 60
  /\ status_unauthorized_seen = FALSE
  /\ gw = [stale |-> FALSE, handed |-> FALSE, calls |-> 0]
  /\ tk = [t \in Threads |-> NoCall]

\* ------------------------------------------------- the locks of a handler
\* What a function does to the locks and the gateways, as the sequences of
\* lock, unlock, http and exit steps of its paths: ok for the paths that
\* return success, err for those that return an error or end the process.
Lk(l) == <<[op |-> "lock", arg |-> l]>>
Un(l) == <<[op |-> "unlock", arg |-> l]>>
Http(host) == <<[op |-> "http", arg |-> host]>>
Exit4 == <<[op |-> "exit", arg |-> "4"]>>
Hang == <<[op |-> "hang", arg |-> ""]>>

\* f; if (!err) g.
Then(f, g) ==
  [ok |-> {a \o b : a \in f.ok, b \in g.ok},
   err |-> f.err \cup {a \o b : a \in f.ok, b \in g.err}]

\* One path or the other.
Either(f, g) == [ok |-> f.ok \cup g.ok, err |-> f.err \cup g.err]

\* The paths of f, followed by a return with an error.
AsErr(f) == [ok |-> {}, err |-> f.ok \cup f.err]

\* A function that touches no lock: it succeeds, or it may fail as well.
NoOp == [ok |-> {<<>>}, err |-> {}]
MayFail == [ok |-> {<<>>}, err |-> {<<>>}]

Paths(f) == f.ok \cup f.err

\* session.c: each function of the interface takes the sessions lock once
\* and releases it before it returns; a malformed id is refused before.
\* On lists that a write through the uninitialized pointer has tied into a
\* ring the walk under the lock does not end.
session_call ==
  [ok |-> {Lk("sessions_lock") \o Un("sessions_lock")},
   err |-> {<<>>, Lk("sessions_lock") \o Un("sessions_lock"),
            Lk("sessions_lock") \o Hang}]

\* write_log as seen from the locks (nothing if there is no journal).
write_log ==
  [ok |-> {<<>>, Lk("logfile_lock") \o Un("logfile_lock")},
   err |-> {Lk("logfile_lock") \o Un("logfile_lock") \o Exit4}]

\* jrnl_store_*_record: start_record, write_and_close_fp, write_log.
jrnl_store_record == [ok |-> write_log.ok, err |-> write_log.err \cup {Exit4}]

\* preorder.c.
open_preorder_db ==
  [ok |-> {Lk("preorder_db_lock")},
   err |-> {Lk("preorder_db_lock") \o Un("preorder_db_lock")}]

close_preorder_db == [ok |-> {Un("preorder_db_lock")}, err |-> {}]

preorder_store_record ==
  Then(open_preorder_db, Either(close_preorder_db, AsErr(close_preorder_db)))

preorder_get_record == Then(MayFail, preorder_store_record)

\* preorder_update_record that forgets the lock when the record is missing.
preorder_update_record_leaky ==
  Then(MayFail,
       Then(open_preorder_db,
            Either(AsErr(NoOp), Then(jrnl_store_record, close_preorder_db))))

preorder_update_record ==
  Then(MayFail,
       Then(open_preorder_db,
            Either(AsErr(close_preorder_db),
                   Then(jrnl_store_record, close_preorder_db))))

\* account.c.
open_account_db ==
  [ok |-> {Lk("account_db_lock")},
   err |-> {Lk("account_db_lock") \o Un("account_db_lock")}]

close_account_db == [ok |-> {Un("account_db_lock")}, err |-> {}]

account_record ==
  Then(open_account_db, Either(close_account_db, AsErr(close_account_db)))

\* The requests to the gateways: call_paypal, call_stripe, call_verify.
call_paypal == [ok |-> {Http("paypal")}, err |-> {<<>>, Http("paypal")}]
call_stripe == [ok |-> {Http("stripe")}, err |-> {<<>>, Http("stripe")}]
call_verify == [ok |-> {Http("ipn")}, err |-> {<<>>, Http("ipn")}]

\* get_access_token that returns with its mutex held.
get_access_token_leaky ==
  [ok |-> {Lk("my_lock"), Lk("my_lock") \o Http("oauth2/token")},
   err |-> {Lk("my_lock") \o Un("my_lock")}]

\* get_access_token: the mutex is taken at the start and released at
\* leave; in between the token is taken from the cache or asked for.
get_access_token ==
  [ok |-> {Lk("my_lock") \o Un("my_lock"),
           Lk("my_lock") \o Http("oauth2/token") \o Un("my_lock")},
   err |-> {Lk("my_lock") \o Un("my_lock"),
            Lk("my_lock") \o Http("oauth2/token") \o Un("my_lock"),
            Lk("my_lock") \o Exit4}]

\* stripe.c.
stripe_find_create_plan == Then(call_stripe, Either(NoOp, call_stripe))

stripe_create_subscription ==
  Then(account_record, Then(call_stripe, Then(call_stripe, account_record)))

\* paypal.c.
paypal_find_create_plan ==
  Then(get_access_token,
       Then(call_paypal, Either(NoOp, Then(call_paypal, call_paypal))))

paypal_create_subscription ==
  Then(session_call,
       Then(get_access_token,
            Then(account_record, Then(call_paypal, session_call))))

paypal_checkout_prepare ==
  Then(session_call, Then(get_access_token, Then(call_paypal, session_call)))

paypal_checkout_execute ==
  Then(session_call,
       Then(session_call,
            Then(session_call,
                 Then(call_paypal, Either(NoOp, account_record)))))

\* commands.c: the handlers.
cmd_session == Then(session_call, Either(NoOp, session_call))

cmd_cardtoken == Then(MayFail, call_stripe)

cmd_chargecard ==
  Then(MayFail,
       Then(Either(Then(stripe_find_create_plan, stripe_create_subscription),
                   call_stripe),
            jrnl_store_record))

cmd_ppcheckout ==
  Either(Then(Either(NoOp, session_call),
              Either(Then(paypal_find_create_plan,
                          paypal_create_subscription),
                     paypal_checkout_prepare)),
         Then(paypal_checkout_execute, jrnl_store_record))

cmd_sepapreorder == Then(MayFail, preorder_store_record)

cmd_commitpreorder == Then(MayFail, preorder_update_record)

cmd_getpreorder == Then(MayFail, preorder_get_record)

cmd_ppipnhd == Then(MayFail, call_verify)

\* payprocd.c: housekeeping_thread, with read_exchange_rates.
housekeeping_thread ==
  Then(session_call, Either(NoOp, Then(jrnl_store_record, jrnl_store_record)))

\* What a thread of the daemon may run.
Programs ==
  UNION {Paths(f) : f \in {cmd_session, cmd_cardtoken, cmd_chargecard,
                           cmd_ppcheckout, cmd_sepapreorder,
                           cmd_commitpreorder, cmd_getpreorder, cmd_ppipnhd,
                           housekeeping_thread}}

\* The steps of a thread.
AtStep(t) == lk[t].st = "run" /\ lk[t].rest # <<>>
NextOp(t) == Head(lk[t].rest)
Proceed(t) == lk' = [lk EXCEPT ![t].rest = Tail(@)]

\* A thread enters a handler, on the path p.
LStart(t, p) ==
  /\ Alive
  /\ lk[t].st = "idle"
  /\ lk' = [lk EXCEPT ![t] = [st |-> "run", rest |-> p]]
  /\ UNCHANGED <<procVars, journalVars, tokenVars, execVars, restVars>>
  /\ UNCHANGED <<storeVars, daemonVars>>

\* npth_mutex_lock: the thread waits until the mutex is free.
LLock(t) ==
  /\ Alive
  /\ AtStep(t)
  /\ NextOp(t).op = "lock"
  /\ locks[NextOp(t).arg] = 0
  /\ locks' = [locks EXCEPT ![NextOp(t).arg] = t]
  /\ Proceed(t)
  /\ UNCHANGED <<exit_code, journalVars, tokenVars, execVars, restVars>>
  /\ UNCHANGED <<storeVars, daemonVars>>

\* npth_mutex_unlock.
LUnlock(t) ==
  /\ Alive
  /\ AtStep(t)
  /\ NextOp(t).op = "unlock"
  /\ locks' = [locks EXCEPT ![NextOp(t).arg] = 0]
  /\ Proceed(t)
  /\ UNCHANGED <<exit_code, journalVars, tokenVars, execVars, restVars>>
  /\ UNCHANGED <<storeVars, daemonVars>>

\* http_open .. http_close: the request is made and answered.
LHttp(t) ==
  /\ Alive
  /\ AtStep(t)
  /\ NextOp(t).op = "http"
  /\ Proceed(t)
  /\ UNCHANGED <<procVars, journalVars, tokenVars, execVars, restVars>>
  /\ UNCHANGED <<storeVars, daemonVars>>

\* severe_error.
LExit(t) ==
  /\ Alive
  /\ AtStep(t)
  /\ NextOp(t).op = "exit"
  /\ ExitAs(severe_error)
  /\ Proceed(t)
  /\ UNCHANGED <<locks, journalVars, tokenVars, execVars, restVars>>
  /\ UNCHANGED <<storeVars, daemonRest>>

\* The handler returns.
LReturn(t) ==
  /\ Alive
  /\ lk[t].st = "run"
  /\ lk[t].rest = <<>>
  /\ lk' = [lk EXCEPT ![t].st = "idle"]
  /\ UNCHANGED <<procVars, journalVars, tokenVars, execVars, restVars>>
  /\ UNCHANGED <<storeVars, daemonVars>>

\* No thread runs a command handler.
NoProg == [st |-> "idle", rest |-> <<>>]
ProgIdle == lk = [t \in Threads |-> NoProg]

\* ------------------------------------------------- PPCHECKOUT execute
\* paypal.c: paypal_checkout_execute as cmd_ppcheckout runs it.  Each of
\* session_get_sessid, session_destroy_alias and session_get takes and
\* releases the sessions lock by itself, so each is one step of the thread.
NoExec == [pc |-> "idle", alias |-> 0, sessid |-> 0, err |-> "",
           contacted |-> FALSE, journaled |-> FALSE]

\* What the state restored from the session and the gateway can make of the
\* execute call: a restore_field fails, call_paypal fails, PayPal answers
\* with a status other than 200 and 201, or the payment is executed.
PayOutcomes == {"nomem", "error", "refused", "ok"}

\* "if (err) goto leave" after a call into the session store that returned
\* r; a thread of a crashed or hung process never returns.
XAfter(t, r, pc, sessid) ==
  /\ SetMem(r.m)
  /\ ex' = IF r.m.proc # "run" THEN [ex EXCEPT ![t].pc = "dead"]
           ELSE IF r.err # "OK"
           THEN [ex EXCEPT ![t].pc = "failed", ![t].err = r.err]
           ELSE [ex EXCEPT ![t].pc = pc, ![t].sessid = sessid]
  /\ UNCHANGED <<now, ticks, strays, hist, xpaid>>
  /\ UNCHANGED <<daemonVars, procVars, journalVars, tokenVars, progVars,
               restVars>>

\* A client sends PPCHECKOUT execute with Alias-Id a.
XStart(t, a) ==
  /\ Running
  /\ ex[t].pc = "idle"
  /\ ex' = [ex EXCEPT ![t] = [NoExec EXCEPT !.pc = "sessid", !.alias = a]]
  /\ UNCHANGED <<storeVars, xpaid>>
  /\ UNCHANGED <<daemonVars, procVars, journalVars, tokenVars, progVars,
               restVars>>

\* err = session_get_sessid (aliasid, &sessid).
XSessid(t, oom) ==
  /\ Running
  /\ ex[t].pc = "sessid"
  /\ ~oom \/ session_get_sessid(Mem, ex[t].alias, oom).err = "ENOMEM"
  /\ XAfter(t, session_get_sessid(Mem, ex[t].alias, oom), "destroy",
            session_get_sessid(Mem, ex[t].alias, oom).sessid)

\* err = session_destroy_alias (aliasid).
XDestroy(t) ==
  /\ Running
  /\ ex[t].pc = "destroy"
  /\ XAfter(t, do_destroy_alias(Mem, ex[t].alias, NULL), "get", ex[t].sessid)

\* err = session_get (sessid, &state).
XGet(t, oom) ==
  /\ Running
  /\ ex[t].pc = "get"
  /\ ~oom \/ session_get(Mem, ex[t].sessid, now, oom).err = "ENOMEM"
  /\ XAfter(t, session_get(Mem, ex[t].sessid, now, oom), "pay", ex[t].sessid)

\* From "Get the required Paypal parameters" to the status test after
\* call_paypal.
XPay(t, out) ==
  /\ Running
  /\ ex[t].pc = "pay"
  /\ ex' = [ex EXCEPT
             ![t].pc = IF out = "ok" THEN "journal" ELSE "failed",
             ![t].err = IF out = "nomem" THEN "ENOMEM"
                        ELSE IF out = "error" THEN "NETWORK"
                        ELSE IF out = "refused" THEN "GENERAL"
                        ELSE "",
             ![t].contacted = out # "nomem"]
  /\ xpaid' = IF out = "nomem" THEN xpaid
              ELSE [xpaid EXCEPT ![ex[t].alias] = @ + 1]
  /\ UNCHANGED storeVars
  /\ UNCHANGED <<daemonVars, procVars, journalVars, tokenVars, progVars,
               restVars>>

\* commands.c: cmd_ppcheckout after paypal_checkout_execute has returned 0:
\* jrnl_store_charge_record.
XJournal(t) ==
  /\ Running
  /\ ex[t].pc = "journal"
  /\ ex' = [ex EXCEPT ![t].pc = "done", ![t].journaled = TRUE]
  /\ UNCHANGED <<storeVars, xpaid>>
  /\ UNCHANGED <<daemonVars, procVars, journalVars, tokenVars, progVars,
               restVars>>

\* No thread runs an execute and none has been run.
ExecIdle ==
  /\ ex = [t \in Threads |-> NoExec]
  /\ xpaid = [i \in 1..MaxIdsB |-> 0]

\* ------------------------------------------------------- the preorder db
\* preorder.c.  A reference is the "AAAAA" part that make_sepa_ref derives
\* from its nonce, numbered; a Sepa-Ref is the string "AAAAA-NN", held as
\* the reference and the two digits.
Refs == 1..NRefs

\* The values of 10 + (n % 90) the nonce is taken to give.
RefNNs == {10, 99}

\* make_sepa_ref for a nonce that gives reference r and number i.
make_sepa_ref(r, i) == <<r, i \div 10, i % 10>>

\* separef[5] = 0, and the cut at the '-' of preorder_get_record and
\* preorder_update_record: the reference of a Sepa-Ref.
RefPart(separef) == separef[1]

\* atoi (separef + 6).
atoi(separef) == 10 * separef[2] + separef[3]

SepaRefs == {make_sepa_ref(r, i) : r \in Refs, i \in RefNNs}
NoSepaRef == <<0, 0, 0>>

\* A row of the table: refnn, paid (NULL is 0, else the number of the
\* request that set it, which stands for its time), npaid, and the request
\* whose Amount, Desc, Email and Meta it holds.
NoRow == [present |-> FALSE, refnn |-> 0, paid |-> 0, npaid |-> 0,
          req |-> 0]

\* The PRIMARY KEY constraint on ref.
Conflicts_never(rows, r) == FALSE
Conflicts(rows, r) == rows[r].present

\* INSERT INTO preorder VALUES (?1,?2,?3,NULL,0,?4,...).
InsertRow(rows, separef, req) ==
  [rows EXCEPT ![RefPart(separef)] =
     [present |-> TRUE, refnn |-> atoi(separef), paid |-> 0, npaid |-> 0,
      req |-> req]]

\* UPDATE preorder SET paid = ?2, npaid = npaid + 1 WHERE ref=?1.
UpdateRow_once(rows, r, req) ==
  [rows EXCEPT ![r].paid = req, ![r].npaid = 1]
UpdateRow(rows, r, req) ==
  [rows EXCEPT ![r].paid = req, ![r].npaid = @ + 1]

\* get_columns: the Sepa-Ref made of the columns ref and refnn by
\* snprintf (separef+5, 4, "-%02d", i).
get_columns(row, r) == <<r, (row.refnn \div 10) % 10, row.refnn % 10>>

\* if (res == SQLITE_CONSTRAINT_PRIMARYKEY && ++retrycount < 11000).
Retries_endless(retrycount) == TRUE
Retries(retrycount) == retrycount + 1 < RetryLimit

NoCmd == [pc |-> "idle", cmd |-> "", req |-> 0, separef |-> NoSepaRef,
          retrycount |-> 0, attempts |-> 0, err |-> "", row |-> NoRow]

\* What a preorder command leaves alone.
preorderRest == <<storeVars, daemonVars, journalVars, tokenVars, progVars,
                  execVars, ipnVars, dictVars, escVars, otherVars>>

\* cmd_sepapreorder, cmd_commitpreorder or cmd_getpreorder is entered, the
\* latter two with the Sepa-Ref of the request.
PStart(t, cmd, separef) ==
  /\ Alive
  /\ pq[t].pc \in {"idle", "done"}
  /\ plog.nreq < MaxPReq
  /\ (cmd = "insert") = (separef = NoSepaRef)
  /\ pq' = [pq EXCEPT ![t] = [NoCmd EXCEPT !.pc = "open", !.cmd = cmd,
                                           !.req = plog.nreq + 1,
                                           !.separef = separef]]
  /\ plog' = [plog EXCEPT !.nreq = @ + 1]
  /\ UNCHANGED <<ptab, procVars>>
  /\ UNCHANGED preorderRest

\* open_preorder_db: takes the lock; opens the database if it is not open,
\* and on a failure of that gives the lock back through
\* close_preorder_db (1).
POpen(t, fail) ==
  /\ Alive
  /\ pq[t].pc = "open"
  /\ locks["preorder_db_lock"] = 0
  /\ fail => ~ptab.open
  /\ locks' = IF fail THEN locks
              ELSE [locks EXCEPT !["preorder_db_lock"] = t]
  /\ ptab' = [ptab EXCEPT !.open = ~fail]
  /\ pq' = IF fail
           THEN [pq EXCEPT ![t].pc = "done", ![t].err = "GENERAL"]
           ELSE [pq EXCEPT ![t].pc = pq[t].cmd]
  /\ UNCHANGED <<exit_code, plog>>
  /\ UNCHANGED preorderRest

\* insert_preorder_record from "retry:" to the next "goto retry" or return,
\* with a nonce that gives reference r and number i.  out: "nomem"
\* (keyvalue_put fails), "sqlerr" (a bind or the step fails otherwise) or
\* "none".  cap bounds the conflicts in a row that the nonces of the run
\* give.
PInsert(t, r, i, out, cap) ==
  /\ Alive
  /\ pq[t].pc = "insert"
  /\ locks["preorder_db_lock"] = t
  /\ (out = "none" /\ Conflicts(ptab.rows, r)) => pq[t].retrycount < cap
  /\ IF out = "nomem"
     THEN /\ pq' = [pq EXCEPT ![t].pc = "close", ![t].err = "ENOMEM"]
          /\ UNCHANGED ptab
     ELSE IF out = "sqlerr"
     THEN /\ pq' = [pq EXCEPT ![t].pc = "close", ![t].err = "GENERAL",
                              ![t].separef = make_sepa_ref(r, i),
                              ![t].attempts = @ + 1]
          /\ UNCHANGED ptab
     ELSE IF ~Conflicts(ptab.rows, r)
     THEN /\ pq' = [pq EXCEPT ![t].pc = "close",
                              ![t].separef = make_sepa_ref(r, i),
                              ![t].attempts = @ + 1]
          /\ ptab' = [ptab EXCEPT !.rows =
                        InsertRow(@, make_sepa_ref(r, i), pq[t].req)]
     ELSE /\ pq' = [pq EXCEPT
                      ![t].pc = IF Retries(pq[t].retrycount)
                                THEN "insert" ELSE "close",
                      ![t].err = IF Retries(pq[t].retrycount)
                                 THEN "" ELSE "GENERAL",
                      ![t].retrycount = @ + 1,
                      ![t].separef = make_sepa_ref(r, i),
                      ![t].attempts = @ + 1]
          /\ UNCHANGED ptab
  /\ UNCHANGED <<procVars, plog>>
  /\ UNCHANGED preorderRest

\* get_preorder_record for the reference of the Sepa-Ref of the request, as
\* preorder_get_record and preorder_update_record call it; oom: a
\* keyvalue_put of get_columns fails.
PGet(t, oom) ==
  /\ Alive
  /\ pq[t].pc \in {"get", "commit"}
  /\ locks["preorder_db_lock"] = t
  /\ oom => ptab.rows[RefPart(pq[t].separef)].present
  /\ pq' = IF ~ptab.rows[RefPart(pq[t].separef)].present
           THEN [pq EXCEPT ![t].pc = "close", ![t].err = "NOT_FOUND"]
           ELSE IF oom
           THEN [pq EXCEPT ![t].pc = "close", ![t].err = "ENOMEM"]
           ELSE [pq EXCEPT
                   ![t].pc = IF pq[t].cmd = "get" THEN "close" ELSE "update",
                   ![t].row = ptab.rows[RefPart(pq[t].separef)],
                   ![t].separef =
                      IF pq[t].cmd = "get"
                      THEN get_columns(ptab.rows[RefPart(pq[t].separef)],
                                       RefPart(pq[t].separef))
                      ELSE pq[t].separef]
  /\ UNCHANGED <<ptab, procVars, plog>>
  /\ UNCHANGED preorderRest

\* preorder_update_record from keyvalue_put (&olddata, "Amount", ...) to
\* the return of update_preorder_record.  fail: "amount" (that keyvalue_put
\* fails), "sqlerr" (a bind or the step fails), "timestamp" (keyvalue_put of
\* "_timestamp" fails after the step) or "none".
PUpdate(t, fail) ==
  /\ Alive
  /\ pq[t].pc = "update"
  /\ locks["preorder_db_lock"] = t
  /\ ptab' = IF fail \in {"amount", "sqlerr"} THEN ptab
             ELSE [ptab EXCEPT !.rows =
                     UpdateRow(@, RefPart(pq[t].separef), pq[t].req)]
  /\ pq' = [pq EXCEPT
             ![t].pc = IF fail = "none" THEN "journal" ELSE "close",
             ![t].err = IF fail = "none" THEN ""
                        ELSE IF fail = "sqlerr" THEN "GENERAL"
                        ELSE "ENOMEM"]
  /\ UNCHANGED <<procVars, plog>>
  /\ UNCHANGED preorderRest

\* jrnl_store_charge_record (&olddata, PAYMENT_SERVICE_SEPA).
PJournal(t) ==
  /\ Alive
  /\ pq[t].pc = "journal"
  /\ locks["preorder_db_lock"] = t
  /\ pq' = [pq EXCEPT ![t].pc = "close"]
  /\ plog' = [plog EXCEPT !.journal = @ \cup {pq[t].req}]
  /\ UNCHANGED <<ptab, procVars>>
  /\ UNCHANGED preorderRest

\* close_preorder_db (0), the return to the command handler and its reply:
\* OK or ERR, and the data lines.
PClose(t) ==
  /\ Alive
  /\ pq[t].pc = "close"
  /\ locks["preorder_db_lock"] = t
  /\ locks' = [locks EXCEPT !["preorder_db_lock"] = 0]
  /\ pq' = [pq EXCEPT ![t].pc = "done"]
  /\ plog' =
       IF pq[t].err # "" THEN plog
       ELSE IF pq[t].cmd = "insert"
       THEN [plog EXCEPT !.ret = @ \cup {[req |-> pq[t].req,
                                          separef |-> pq[t].separef,
                                          clashed |-> pq[t].retrycount > 0]}]
       ELSE IF pq[t].cmd = "commit"
       THEN [plog EXCEPT !.commits[RefPart(pq[t].separef)] = @ + 1]
       ELSE plog
  /\ UNCHANGED <<ptab, exit_code>>
  /\ UNCHANGED preorderRest

\* The name of the item insert_preorder_record puts into the dictionary:
\* "Sepa-Ref".
SepaRefName == <<83, 101, 112, 97, 45, 82, 101, 102>>

\* The references in the data lines cmd_sepapreorder writes after its
\* status line, be that OK or ERR: the loop over conn->dataitems writes
\* the Sepa-Ref item if the dictionary has one.
SepaRefLines(q) ==
  IF q.separef # NoSepaRef /\ SepaRefName[1] >= 65 /\ SepaRefName[1] < 90
  THEN {q.separef} ELSE {}

\* The database has not been opened, the table is empty and no preorder
\* command has been run.
NoRows == [r \in Refs |-> NoRow]
PreorderIdle ==
  /\ ptab = [open |-> FALSE, rows |-> NoRows]
  /\ pq = [t \in Threads |-> NoCmd]
  /\ plog = [nreq |-> 0, ret |-> {}, commits |-> [r \in Refs |-> 0],
             journal |-> {}]

\* ------------------------------------------------------------- PPIPNHD
\* commands.c: cmd_ppipnhd on its connection object, and paypal-ipn.c:
\* paypal_proc_ipn.  A connection is its stream (conn->stream # NULL), the
\* lines written to the stream and not yet flushed, its descriptor
\* (conn->fd # -1) and the lines the peer has been sent.
OkReply == <<"OK", "">>

\* What the Request item of the notification is: missing or empty, not
\* parsable, for another receiver_email, or good for a verification.
IpnRequests == {"none", "garbled", "wrongmail", "good"}

\* What call_verify comes back with.
VerifyAnswers == {"VERIFIED", "INVALID", "error"}

NoIpn == [pc |-> "idle", req |-> "none", stream |-> FALSE, buf |-> <<>>,
          fd |-> FALSE, wire |-> <<>>, verify |-> ""]

\* A shutdown_connection_obj that leaves the connection as it is.
shutdown_connection_obj_not(c) == c

\* shutdown_connection_obj (conn): es_fclose writes out what the stream
\* holds; close (conn->fd).
shutdown_connection_obj(c) ==
  [c EXCEPT !.wire = IF c.stream /\ c.fd THEN c.wire \o c.buf ELSE c.wire,
            !.buf = <<>>,
            !.stream = FALSE,
            !.fd = FALSE]

\* What a thread in the PPIPNHD handler leaves alone.
ipnRest == <<storeVars, daemonVars, procVars, journalVars, tokenVars,
             progVars, execVars, preorderVars, dictVars, escVars,
             otherVars>>

\* connection_handler has opened the stream, read a PPIPNHD request and
\* calls the handler.
IStart(t, req) ==
  /\ Alive
  /\ ipn[t].pc \in {"idle", "released"}
  /\ ipn' = [ipn EXCEPT ![t] = [NoIpn EXCEPT !.pc = "handler", !.req = req,
                                             !.stream = TRUE, !.fd = TRUE]]
  /\ UNCHANGED ipnRest

\* es_fputs ("OK\n\n", conn->stream).
IReply(t) ==
  /\ Alive
  /\ ipn[t].pc = "handler"
  /\ ipn' = [ipn EXCEPT ![t].buf = @ \o OkReply, ![t].pc = "shutdown"]
  /\ UNCHANGED ipnRest

\* shutdown_connection_obj (conn) in cmd_ppipnhd.
IShutdown(t) ==
  /\ Alive
  /\ ipn[t].pc = "shutdown"
  /\ ipn' = [ipn EXCEPT ![t] = [shutdown_connection_obj(@) EXCEPT
                                  !.pc = "proc"]]
  /\ UNCHANGED ipnRest

\* paypal_proc_ipn up to the call of call_verify.
IProc(t) ==
  /\ Alive
  /\ ipn[t].pc = "proc"
  /\ ipn' = [ipn EXCEPT ![t].pc = IF ipn[t].req = "good" THEN "verify"
                                  ELSE "return"]
  /\ UNCHANGED ipnRest

\* call_verify and the rest of paypal_proc_ipn.
IVerify(t, answer) ==
  /\ Alive
  /\ ipn[t].pc = "verify"
  /\ ipn' = [ipn EXCEPT ![t].verify = answer, ![t].pc = "return"]
  /\ UNCHANGED ipnRest

\* cmd_ppipnhd returns 0 to connection_handler:
\* if (conn->stream) es_fprintf (conn->stream, "\n").
IReturn(t) ==
  /\ Alive
  /\ ipn[t].pc = "return"
  /\ ipn' = [ipn EXCEPT ![t].buf = IF ipn[t].stream THEN @ \o <<"">> ELSE @,
                        ![t].pc = "release"]
  /\ UNCHANGED ipnRest

\* connection_thread: release_connection_obj (conn).
IRelease(t) ==
  /\ Alive
  /\ ipn[t].pc = "release"
  /\ ipn' = [ipn EXCEPT ![t] = [shutdown_connection_obj(@) EXCEPT
                                  !.pc = "released"]]
  /\ UNCHANGED ipnRest

\* No connection carries a notification.
IpnIdle == ipn = [t \in Threads |-> NoIpn]

\* ---------------------------------------------- SESSION put and get
\* protocol-io.c: the data lines of a request; commands.c: cmd_session.
\* The names a client sends: "foo", "Zip", "_p".
RawNames == {<<102, 111, 111>>, <<90, 105, 112>>, <<95, 112>>}
Zip == <<90, 105, 112>>

\* The name under which paypal_checkout_prepare backs up its state in the
\* session ("_p", for "_paypal:id" and the like), and the value it stores.
InternalName == <<95, 112>>
InternalValue == "state"

PutValues == {"", "bar", "baz"}

\* A data line is its name and its value; a request has up to MaxLines.
\* The value of a line with the name "_p" is always "bar".
DataLines == {l \in [name : RawNames, value : PutValues] :
                l.name[1] = 95 => l.value = "bar"}
DataSeqs(n) == UNION {[1..k -> DataLines] : k \in 0..n}

\* capitalize_name from character i on; first and bracket are the locals
\* of the same name.
RECURSIVE CapFrom(_, _, _, _)
CapFrom(name, i, first, bracket) ==
  IF i > Len(name) \/ name[i] = 58 THEN name
  ELSE IF bracket > 0
  THEN CapFrom(name, i + 1, first,
               IF name[i] = 93 THEN bracket - 1 ELSE bracket)
  ELSE IF name[i] = 91 THEN CapFrom(name, i + 1, first, bracket + 1)
  ELSE IF name[i] = 45 THEN CapFrom(name, i + 1, TRUE, bracket)
  ELSE IF first
  THEN CapFrom(IF name[i] >= 97 /\ name[i] <= 122
               THEN [name EXCEPT ![i] = name[i] - 97 + 65] ELSE name,
               i + 1, FALSE, bracket)
  ELSE CapFrom(IF name[i] >= 65 /\ name[i] <= 90
               THEN [name EXCEPT ![i] = name[i] - 65 + 97] ELSE name,
               i + 1, first, bracket)

capitalize_name(name) == CapFrom(name, 1, TRUE, 0)

\* *line, the first character of a line (0 ends the string).
FirstChar(name) == IF Len(name) = 0 THEN 0 ELSE name[1]

\* store_data_line for a line that is no continuation and has its colon,
\* once the name is in the form it is stored in.
StoreNamed(name, value, filter, dataitems) ==
  IF filter /\ (FirstChar(name) < 65 \/ FirstChar(name) > 90)
  THEN [err |-> "INV_NAME", dict |-> dataitems]
  ELSE IF keyvalue_find(dataitems, name) # 0
  THEN [err |-> "PROTOCOL_VIOLATION", dict |-> dataitems]
  ELSE [err |-> "OK", dict |-> keyvalue_put(dataitems, name, value)]

\* A store_data_line that lets every name pass.
store_data_line_open(line, filter, dataitems) ==
  StoreNamed(IF filter THEN capitalize_name(line.name) ELSE line.name,
             line.value, FALSE, dataitems)

\* store_data_line (line, filter, dataitems).
store_data_line(line, filter, dataitems) ==
  StoreNamed(IF filter THEN capitalize_name(line.name) ELSE line.name,
             line.value, filter, dataitems)

\* The loop of read_data over the data lines from line i on, after line
\* i - 1 has been stored with the result r.
RECURSIVE ReadFrom(_, _, _)
ReadFrom(lines, i, r) ==
  IF r.err # "OK" \/ i > Len(lines) THEN r
  ELSE ReadFrom(lines, i + 1, store_data_line(lines[i], TRUE, r.dict))

\* protocol_read_request: the dictionary of the request.
protocol_read_request(lines) ==
  ReadFrom(lines, 1, [err |-> "OK", dict |-> <<>>])

\* The test of cmd_session and the other handlers for the data lines of a
\* reply: kv->name[0] >= 'A' && kv->name[0] < 'Z'; write_data_line writes
\* nothing for a NULL value.
ReplyTest(kv) ==
  FirstChar(kv.name) >= 65 /\ FirstChar(kv.name) < 90 /\ kv.value # NOVAL

\* The data lines cmd_session writes after OK.
ReplyLines(dict) == SelectSeq(dict, ReplyTest)

\* cmd_session, sub-command put, after session_put has returned r:
\* session_destroy (options) if that was ENOMEM.
PutAnswered(r, sessid) ==
  IF r.err = "ENOMEM"
  THEN [m |-> session_do_destroy(r.m, sessid).m, err |-> r.err]
  ELSE r

\* What the session holds for the clients once a put of dict has
\* succeeded: the value of the last put of each name, none if that was
\* empty.
RECURSIVE Upsert(_, _, _)
Upsert(exp, dict, i) ==
  IF i > Len(dict) THEN exp
  ELSE Upsert([exp EXCEPT ![dict[i].name] = PutValue(dict[i].value)],
              dict, i + 1)

StoredNames == {capitalize_name(n) : n \in RawNames} \cup {InternalName}
NoReplyYet == [cmd |-> "", id |-> 0, err |-> "", lines |-> <<>>,
               internal |-> FALSE, after |-> FALSE, got |-> <<>>,
               held |-> <<>>, exp |-> <<>>]

\* One of the data lines has a name that begins with '_'.
HasInternal(lines) == \E i \in 1..Len(lines) : FirstChar(lines[i].name) = 95

\* What a SESSION command leaves alone.
dictRest == <<now, ticks, strays, hist, daemonVars, procVars, journalVars,
              tokenVars, progVars, execVars, preorderVars, ipnVars,
              escVars, otherVars>>

\* The requests protocol_read_request is handed: what it returns for the
\* data lines, and whether one of them has a name that begins with '_'.
PutRequests ==
  {[err |-> protocol_read_request(lines).err,
    dict |-> protocol_read_request(lines).dict,
    internal |-> HasInternal(lines)] : lines \in DataSeqs(MaxLines)}

\* SESSION put: the request rd has been read and is handled by
\* cmd_session, where session_put has returned r and the handler a.
SPutDone(id, rd, r, a) ==
  /\ SetMem(a.m)
  /\ sreply' = [cmd |-> "put", id |-> id, err |-> a.err, lines |-> <<>>,
                internal |-> rd.internal, after |-> sexp.gone, got |-> <<>>,
                held |-> <<>>, exp |-> <<>>]
  /\ sexp' = IF id # 1 THEN sexp
             ELSE IF r.err = "OK"
             THEN [sexp EXCEPT !.dict = Upsert(@, rd.dict, 1)]
             ELSE IF r.err = "ENOMEM" THEN [sexp EXCEPT !.gone = TRUE]
             ELSE sexp
  /\ UNCHANGED dictRest

SPutWith(id, rd, oom, r) ==
  /\ ~oom \/ r.err = "ENOMEM"
  /\ SPutDone(id, rd, r, PutAnswered(r, id))

SPut(id, rd, oom) ==
  /\ Running
  /\ rd.err = "OK"
  /\ SPutWith(id, rd, oom, session_put(Mem, id, rd.dict, now, oom))

\* A SESSION put whose request protocol_read_request rejects: the handler
\* is not called.
SPutUnread(id, rd) ==
  /\ Running
  /\ rd.err # "OK"
  /\ sreply' = [cmd |-> "put", id |-> id, err |-> rd.err, lines |-> <<>>,
                internal |-> rd.internal, after |-> sexp.gone, got |-> <<>>,
                held |-> <<>>, exp |-> <<>>]
  /\ UNCHANGED <<storeVars, sexp>>
  /\ UNCHANGED <<daemonVars, procVars, journalVars, tokenVars, progVars,
                 execVars, preorderVars, ipnVars, escVars, otherVars>>

\* The dictionary of the session get_session_object finds, empty if it
\* finds none.
HeldBy(g) == IF g.err = "OK" THEN g.m.sess[g.sess].dict ELSE <<>>
SessionDict(m, sessid, t) == HeldBy(get_session_object(m, sessid, t))

\* SESSION get, where session_get has returned r: the reply, with the
\* dictionary session_get returned (got), the one the session held (held)
\* and what the clients had put (exp).
SGetDone(id, r) ==
  /\ SetMem(r.m)
  /\ sreply' = [cmd |-> "get", id |-> id, err |-> r.err,
                lines |-> IF r.err = "OK" THEN ReplyLines(r.dict) ELSE <<>>,
                internal |-> FALSE, after |-> sexp.gone,
                got |-> r.dict,
                held |-> SessionDict(Mem, id, now),
                exp |-> IF id = 1 THEN sexp.dict ELSE <<>>]
  /\ UNCHANGED sexp
  /\ UNCHANGED dictRest

SGet(id, oom) ==
  /\ Running
  /\ ~oom \/ session_get(Mem, id, now, oom).err = "ENOMEM"
  /\ SGetDone(id, session_get(Mem, id, now, oom))

\* paypal_checkout_prepare backs up its state in the session:
\* session_put (sessid, dict) with the "_paypal:" items.
SBackupDone(id, r) ==
  /\ SetMem(r.m)
  /\ sexp' = IF id = 1 /\ r.err = "OK"
             THEN [sexp EXCEPT !.backup = TRUE] ELSE sexp
  /\ UNCHANGED sreply
  /\ UNCHANGED dictRest

SBackup(id) ==
  /\ Running
  /\ SBackupDone(id, session_put(Mem, id, <<[name |-> InternalName,
                                             value |-> InternalValue]>>,
                                 now, FALSE))

\* No SESSION put or get has been answered.
DictIdle ==
  /\ sreply = NoReplyYet
  /\ sexp = [dict |-> [n \in StoredNames |-> NOVAL], gone |-> FALSE,
             backup |-> FALSE]

\* ------------------------------------------------- escaped fields
\* journal.c, util.c: write_escaped_buf; percent.c: percent_unescape.
\* A field is the sequence of its bytes.  The bytes of the fields that are
\* written: '%', ':', LF, '4', '1', 'A'.
FieldBytes == {37, 58, 10, 52, 49, 65}
Fields(n) == UNION {[1..k -> FieldBytes] : k \in 0..n}

\* The characters of the string ":&\n\r" that write_escaped_buf hands to
\* strchr, which finds the terminating NUL of that string as well.
EscapedBytes == {58, 38, 10, 13, 0}

\* The digit of value n the format %02X writes.
HexDigit(n) == IF n < 10 THEN 48 + n ELSE 65 + (n - 10)

\* es_fprintf (fp, "%%%02X", *s).
PercentHex(b) == <<37, HexDigit(b \div 16), HexDigit(b % 16)>>

\* write_escaped_buf (buf, len, fp) from byte i on: what it writes.
RECURSIVE WriteFrom(_, _)
WriteFrom(buf, i) ==
  IF i > Len(buf) THEN <<>>
  ELSE (IF buf[i] \notin EscapedBytes THEN <<buf[i]>>
        ELSE PercentHex(buf[i])) \o WriteFrom(buf, i + 1)

write_escaped_buf(buf) == WriteFrom(buf, 1)

\* hexdigitp and xtoi_1 of util.h.
hexdigitp(c) == c \in 48..57 \/ c \in 65..70 \/ c \in 97..102
xtoi_1(c) == IF c <= 57 THEN c - 48 ELSE IF c <= 70 THEN c - 65 + 10
             ELSE c - 97 + 10

\* percent_unescape (string, nulrepl) from byte i on: %HH stands for the
\* byte HH (for nulrepl if that byte is 0 and nulrepl is not), every
\* other byte for itself.
RECURSIVE UnescapeFrom(_, _, _)
UnescapeFrom(string, i, nulrepl) ==
  IF i > Len(string) THEN <<>>
  ELSE IF string[i] = 37 /\ i + 2 <= Len(string)
          /\ hexdigitp(string[i + 1]) /\ hexdigitp(string[i + 2])
  THEN <<IF xtoi_1(string[i + 1]) * 16 + xtoi_1(string[i + 2]) = 0
            /\ nulrepl # 0
         THEN nulrepl
         ELSE xtoi_1(string[i + 1]) * 16 + xtoi_1(string[i + 2])>>
       \o UnescapeFrom(string, i + 3, nulrepl)
  ELSE <<string[i]>> \o UnescapeFrom(string, i + 1, nulrepl)

percent_unescape(string, nulrepl) == UnescapeFrom(string, 1, nulrepl)

\* What the journal and the other commands leave alone.
escRest == <<storeVars, daemonVars, procVars, journalVars, tokenVars,
             progVars, execVars, preorderVars, ipnVars, dictVars,
             otherVars>>

NoField == [pc |-> "idle", s |-> <<>>, out |-> <<>>, back |-> <<>>]

\* write_escaped (string, fp): the field is written to the journal.
EWrite ==
  /\ pe.pc = "field"
  /\ pe' = [pe EXCEPT !.pc = "written", !.out = write_escaped_buf(pe.s)]
  /\ UNCHANGED escRest

\* print_string of payproc-jrnl: the field is read back.
ERead ==
  /\ pe.pc = "written"
  /\ pe' = [pe EXCEPT !.pc = "read", !.back = percent_unescape(pe.out, 32)]
  /\ UNCHANGED escRest

\* No field is on its way.
EscIdle == pe = NoField

\* ------------------------------------------------------- the ticker
\* payprocd.c: the timeout of the main loop, handle_tick,
\* time_for_housekeeping_p and housekeeping_thread.
TIMERTICK_INTERVAL == 30
HOUSEKEEPING_INTERVAL == 120

\* The static variables of the three functions and abstime of the main
\* loop, the housekeeping threads created and not yet run (spawned), and
\* what an observer has counted: the time of the last tick (ticked) and the
\* seconds between the last two (tgap), the ticks since housekeeping was
\* last started or, before that, since the first tick (since) and their
\* number at the last start (gap), the time
\* of that start (started) and the seconds between the last two (sgap), the
\* sweeps since the exchange rates were last read (runs) and their number
\* at the last read (rgap), and the number of reads (reloads).
NoTimer == [pc |-> "off", abstime |-> 0, last_housekeeping |-> 0,
            sentinel |-> 0, count |-> 0, spawned |-> 0,
            ticked |-> 0, tgap |-> 0, since |-> 0, gap |-> 0,
            started |-> 0, sgap |-> 0, runs |-> 0, rgap |-> 0,
            reloads |-> 0, woken |-> FALSE]

\* What the ticker leaves alone besides the session store.
tickRest == <<daemonVars, procVars, journalVars, tokenVars, progVars,
              execVars, preorderVars, ipnVars, dictVars, escVars, su, ca, fp, ck>>

\* time_for_housekeeping_p (now) with the static last_housekeeping:
\* the answer and the new value of the static.
time_for_housekeeping_always(last, t) == [yes |-> TRUE, last |-> t]
time_for_housekeeping_p(last, t) ==
  IF (IF last = 0 THEN t ELSE last) + HOUSEKEEPING_INTERVAL <= t
     \/ (IF last = 0 THEN t ELSE last) > t
  THEN [yes |-> TRUE, last |-> t]
  ELSE [yes |-> FALSE, last |-> IF last = 0 THEN t ELSE last]

\* The test of housekeeping_thread for what is done only every hour.
HourlyDue(count) == count >= 3600 \div HOUSEKEEPING_INTERVAL

\* The main loop is entered: abstime is TIMERTICK_INTERVAL from now.
TEnter ==
  /\ tm.pc = "off"
  /\ dstate = "serving"
  /\ tm' = [tm EXCEPT !.pc = "loop", !.abstime = now + TIMERTICK_INTERVAL]
  /\ UNCHANGED storeVars
  /\ UNCHANGED tickRest

\* handle_tick where time_for_housekeeping_p has returned h, and the new
\* abstime.
Ticked(h) ==
  tm' = [tm EXCEPT
           !.pc = "select",
           !.abstime = now + TIMERTICK_INTERVAL,
           !.last_housekeeping = h.last,
           !.spawned = IF h.yes THEN @ + 1 ELSE @,
           !.ticked = now,
           !.tgap = IF tm.ticked = 0 THEN 0 ELSE now - tm.ticked,
           !.since = IF h.yes \/ tm.ticked = 0 THEN 0 ELSE @ + 1,
           !.gap = IF h.yes THEN tm.since + 1 ELSE @,
           !.started = IF h.yes THEN now ELSE @,
           !.sgap = IF h.yes /\ tm.started # 0 THEN now - tm.started ELSE @,
           !.woken = FALSE]

\* The top of the main loop up to npth_pselect: if abstime is reached,
\* handle_tick is called and abstime is set anew.
TLoop ==
  /\ tm.pc = "loop"
  /\ IF now >= tm.abstime
     THEN Ticked(time_for_housekeeping_p(tm.last_housekeeping, now))
     ELSE tm' = [tm EXCEPT !.pc = "select"]
  /\ UNCHANGED storeVars
  /\ UNCHANGED tickRest

\* npth_pselect returns: at abstime or late seconds after it, or, if early,
\* for a connection or a signal EarlyWake seconds from now.  The threads
\* that were created run before.
TSelect(early, late, horizon) ==
  /\ tm.pc = "select"
  /\ tm.spawned = 0
  /\ early => (~tm.woken /\ now + EarlyWake < tm.abstime /\ late = 0)
  /\ tm.abstime + late <= horizon
  /\ now' = IF early THEN now + EarlyWake ELSE tm.abstime + late
  /\ tm' = [tm EXCEPT !.pc = "loop", !.woken = @ \/ early]
  /\ UNCHANGED <<ticks, sess, salloc, sessions, unused_sessions,
                 sessions_in_use, bulk, al, aalloc, aliases, unused_aliases,
                 next_id, proc, wild_write, strays, hist>>
  /\ UNCHANGED tickRest

\* housekeeping_thread from its first line to its return.
THousekeeping ==
  /\ tm.spawned > 0
  /\ IF tm.sentinel # 0
     THEN /\ tm' = [tm EXCEPT !.spawned = @ - 1, !.count = @ + 1]
          /\ UNCHANGED storeVars
     ELSE /\ SetMem(session_housekeeping(Mem, now))
          /\ tm' = [tm EXCEPT
                     !.spawned = @ - 1,
                     !.count = IF HourlyDue(tm.count + 1) THEN 0 ELSE @ + 1,
                     !.runs = IF HourlyDue(tm.count + 1) THEN 0 ELSE @ + 1,
                     !.rgap = IF HourlyDue(tm.count + 1)
                              THEN tm.runs + 1 ELSE @,
                     !.reloads = IF HourlyDue(tm.count + 1)
                                 THEN @ + 1 ELSE @]
          /\ UNCHANGED <<now, ticks, strays, hist>>
  /\ UNCHANGED tickRest

\* The main loop has not been entered.
TimerIdle == tm = NoTimer

\* ------------------------------------------------- the listening socket
\* What the system answers while create_socket runs: its socket, the
\* length of the name, the first bind, the socket of already_running_p,
\* the connect, the fdopen, the first line read after the PING (NoLine when the read
\* fails), the second bind and the listen.
NoLine == [head |-> "", next |-> "end"]
PingLines == [head : {"OK", "ERR", "PONG"}, next : {"end", "space", "char"}]
StartEnvs ==
  [socket1 : BOOLEAN, toolong : BOOLEAN,
   bind1 : {"ok", "EADDRINUSE", "EACCES"}, socket : BOOLEAN, connect : BOOLEAN, fdopen : BOOLEAN,
   line : PingLines \cup {NoLine}, bind2 : BOOLEAN, listen : BOOLEAN]
NoEnv ==
  [socket1 |-> TRUE, toolong |-> FALSE, bind1 |-> "ok", socket |-> TRUE, connect |-> FALSE,
   fdopen |-> TRUE, line |-> NoLine, bind2 |-> TRUE, listen |-> TRUE]

\* The mutant of already_running_p: the answer to the PING decides.
already_running_by_ping(e) ==
  IF ~e.socket THEN [exit |-> TRUE, ret |-> 0, said |-> "socket"]
  ELSE IF e.toolong THEN [exit |-> TRUE, ret |-> 0, said |-> "too long"]
  ELSE IF ~e.connect THEN [exit |-> FALSE, ret |-> 0, said |-> ""]
  ELSE IF ~e.fdopen THEN [exit |-> FALSE, ret |-> 0, said |-> "fdopen"]
  ELSE IF e.line = NoLine THEN [exit |-> FALSE, ret |-> 0, said |-> "read"]
  ELSE IF ~has_leading_keyword(e.line, "OK")
       THEN [exit |-> FALSE, ret |-> 0, said |-> "PING failed"]
  ELSE [exit |-> FALSE, ret |-> 1, said |-> ""]

\* already_running_p (name): whether it exits, what it returns and the
\* error it logs.  Once the connect has succeeded it returns 1.
already_running_p(e) ==
  IF ~e.socket THEN [exit |-> TRUE, ret |-> 0, said |-> "socket"]
  ELSE IF e.toolong THEN [exit |-> TRUE, ret |-> 0, said |-> "too long"]
  ELSE IF ~e.connect THEN [exit |-> FALSE, ret |-> 0, said |-> ""]
  ELSE IF ~e.fdopen THEN [exit |-> FALSE, ret |-> 1, said |-> "fdopen"]
  ELSE IF e.line = NoLine THEN [exit |-> FALSE, ret |-> 1, said |-> "read"]
  ELSE IF ~has_leading_keyword(e.line, "OK")
       THEN [exit |-> FALSE, ret |-> 1, said |-> "PING failed"]
  ELSE [exit |-> FALSE, ret |-> 1, said |-> ""]

\* create_socket has not been called.
NoStart == [pc |-> "off", env |-> NoEnv, probed |-> FALSE, ret |-> 0,
            said |-> "", unlinked |-> FALSE, binds |-> 0, code |-> 0]

startRest == <<storeVars, daemonVars, procVars, journalVars, tokenVars,
               progVars, execVars, preorderVars, ipnVars, dictVars, escVars,
               tm, ca, fp, ck>>

\* create_socket: the socket, the check of the name and the first bind.
UBind ==
  /\ su.pc = "bind"
  /\ su' = IF ~su.env.socket1
           THEN [su EXCEPT !.pc = "exit", !.said = "socket", !.code = 2]
           ELSE IF su.env.toolong
           THEN [su EXCEPT !.pc = "exit", !.said = "too long", !.code = 2]
           ELSE [su EXCEPT
                   !.binds = 1,
                   !.pc = CASE su.env.bind1 = "ok" -> "listen"
                            [] su.env.bind1 = "EADDRINUSE" -> "probe"
                            [] OTHER -> "exit",
                   !.said = IF su.env.bind1 = "EACCES" THEN "bind" ELSE @,
                   !.code = IF su.env.bind1 = "EACCES" THEN 2 ELSE @]
  /\ UNCHANGED startRest

\* create_socket after EADDRINUSE: the call of already_running_p and the
\* exit that follows the answer 1.
UProbe ==
  /\ su.pc = "probe"
  /\ LET a == already_running_p(su.env)
     IN su' = [su EXCEPT !.probed = ~a.exit,
                         !.ret = a.ret,
                         !.said = IF ~a.exit /\ a.ret = 1
                                  THEN "already running" ELSE a.said,
                         !.pc = IF a.exit \/ a.ret = 1 THEN "exit"
                                ELSE "retry",
                         !.code = IF a.exit \/ a.ret = 1 THEN 2 ELSE @]
  /\ UNCHANGED startRest

\* create_socket: remove (name) and the second bind.
URetry ==
  /\ su.pc = "retry"
  /\ su' = [su EXCEPT !.unlinked = TRUE, !.binds = 2,
                      !.pc = IF su.env.bind2 THEN "listen" ELSE "exit",
                      !.said = IF su.env.bind2 THEN @ ELSE "bind",
                      !.code = IF su.env.bind2 THEN @ ELSE 2]
  /\ UNCHANGED startRest

\* create_socket: listen, and the descriptor is returned.
UListen ==
  /\ su.pc = "listen"
  /\ su' = [su EXCEPT !.pc = IF su.env.listen THEN "done" ELSE "exit",
                      !.said = IF su.env.listen THEN @ ELSE "listen",
                      !.code = IF su.env.listen THEN @ ELSE 2]
  /\ UNCHANGED startRest

StartIdle == su = NoStart

\* ------------------------------------------------------------- amounts
\* An unsigned int has 32 bits; it is kept as its two 16 bit halves, the
\* low half first, so that no intermediate result needs more than 31
\* bits.
Half == 65536
U32Zero == <<0, 0>>

\* 10*value + digit in unsigned int arithmetic.
U32Times10Plus(value, digit) ==
  LET lo == 10 * value[1] + digit
      hi == 10 * value[2] + lo \div Half
  IN <<lo % Half, hi % Half>>

\* v < value for two unsigned ints.
U32Less(v, value) ==
  v[2] < value[2] \/ (v[2] = value[2] /\ v[1] < value[1])

\* The second loop of convert_amount: the missing post decimal digits.
RECURSIVE ScaleFrom(_, _, _)
ScaleFrom(nfrac, decdigits, value) ==
  IF nfrac >= decdigits THEN value
  ELSE LET v == U32Times10Plus(value, 0)
       IN IF U32Less(v, value) THEN U32Zero
          ELSE ScaleFrom(nfrac + 1, decdigits, v)

\* The first loop of convert_amount from the character at index i on.
RECURSIVE ConvertFrom(_, _, _, _, _, _)
ConvertFrom(string, i, decdigits, ndots, nfrac, value) ==
  IF i > Len(string) THEN ScaleFrom(nfrac, decdigits, value)
  ELSE IF string[i] = 46
  THEN IF decdigits = 0 THEN U32Zero
       ELSE IF ndots + 1 > 1 THEN U32Zero
       ELSE ConvertFrom(string, i + 1, decdigits, ndots + 1, nfrac, value)
  ELSE IF string[i] \notin 48..57 THEN U32Zero
  ELSE IF ndots # 0 /\ nfrac + 1 > decdigits THEN U32Zero
  ELSE LET v == U32Times10Plus(value, string[i] - 48)
       IN IF U32Less(v, value) THEN U32Zero
          ELSE ConvertFrom(string, i + 1, decdigits, ndots,
                           IF ndots # 0 THEN nfrac + 1 ELSE nfrac, v)

\* convert_amount (string, decdigits).
convert_amount(string, decdigits) ==
  ConvertFrom(string,
              IF Len(string) > 0 /\ string[1] = 43 THEN 2 ELSE 1,
              decdigits, 0, 0, U32Zero)

\* The amounts that are converted: an optional sign, up to MaxDigits
\* digits and one of the tails.
MaxDigits == 8
AmountDigits == {48, 52, 53}
RECURSIVE DigitSeqs(_)
DigitSeqs(n) ==
  IF n = 0 THEN {<<>>}
  ELSE DigitSeqs(n - 1)
       \cup {Append(s, d) : s \in {t \in DigitSeqs(n - 1) : Len(t) = n - 1},
                            d \in AmountDigits}
AmountSigns == {<<>>, <<43>>, <<45>>}
AmountTails == {<<>>, <<46>>, <<46, 53>>, <<46, 48, 48>>, <<46, 48, 53>>,
                <<46, 48, 48, 53>>, <<46, 46>>}
AmountStrings ==
  {sign \o digits \o tail :
     sign \in AmountSigns, digits \in DigitSeqs(MaxDigits),
     tail \in AmountTails}
DecDigits == {0, 2, 3}

\* No amount has been handed in.
NoAmount == [pc |-> "off", string |-> <<>>, decdigits |-> 0,
             value |-> U32Zero]

\* A caller of convert_amount gets its answer.
CConvert ==
  /\ ca.pc = "string"
  /\ ca' = [ca EXCEPT !.pc = "converted",
                      !.value = convert_amount(ca.string, ca.decdigits)]
  /\ UNCHANGED <<storeVars, daemonVars, procVars, journalVars, tokenVars,
                 progVars, execVars, preorderVars, ipnVars, dictVars,
                 escVars, tm, su, fp, ck>>

AmountIdle == ca = NoAmount

\* ------------------------------------------------------- billing plans
\* strcmp (a, b) > 0 for two strings given as their bytes.
RECURSIVE StrGreater(_, _)
StrGreater(a, b) ==
  IF a = <<>> THEN FALSE
  ELSE IF b = <<>> THEN TRUE
  ELSE IF a[1] # b[1] THEN a[1] > b[1]
  ELSE StrGreater(Tail(a), Tail(b))

\* The buffer last_update holds 24 characters and the terminating nul.
LastUpdateLen == 24
LongUpd == [i \in 1..(LastUpdateLen + 1) |-> 50]

\* strncpy (last_update, my_upd, sizeof last_update - 1).
KeepUpd(my_upd) ==
  IF Len(my_upd) > LastUpdateLen THEN SubSeq(my_upd, 1, LastUpdateLen)
  ELSE my_upd

\* The mutant of NewerPlan: a plan as new as the newest is taken as well.
NewerOrSamePlan(my_upd, last_update) == ~StrGreater(last_update, my_upd)

\* strcmp (my_upd, last_update) > 0.
NewerPlan(my_upd, last_update) == StrGreater(my_upd, last_update)

\* The plans PayPal lists: each has the name that is looked for or
\* another one and an update_time, which may be missing; an item may lack
\* a string as id.  The id of a plan tells its place in the listing, and
\* the ids are not all of the same length.
MaxPlans == 4
page_size == 2
UpdTimes == {<<>>, <<49>>, <<50>>, LongUpd}
PlanItems ==
  [idok : {TRUE}, named : BOOLEAN, upd : UpdTimes]
    \cup {[idok |-> FALSE, named |-> TRUE, upd |-> <<50>>]}
RECURSIVE PlanLists(_)
PlanLists(n) ==
  IF n = 0 THEN {<<>>}
  ELSE PlanLists(n - 1)
       \cup {Append(l, x) : l \in {k \in PlanLists(n - 1) : Len(k) = n - 1},
                            x \in PlanItems}
PlanId(i) == [k \in 1..(1 + ((2 * i) % 3)) |-> 64 + i]
NoPlanId == <<>>

\* The loop over the items of one page, from the item at idx on: the
\* last_update and the last_plan_id it leaves and whether xtrystrdup
\* failed.
RECURSIVE ScanPlans(_, _, _, _, _, _)
ScanPlans(plans, idx, upto, last_update, last_plan_id, oom) ==
  IF idx > upto
  THEN [last_update |-> last_update, last_plan_id |-> last_plan_id,
        err |-> "none"]
  ELSE LET item == plans[idx]
           my_upd == IF item.idok THEN item.upd ELSE <<>>
           my_name == item.idok /\ item.named
       IN IF my_name /\ NewerPlan(my_upd, last_update)
          THEN IF oom /\ (last_plan_id = NoPlanId
                          \/ Len(last_plan_id) < Len(PlanId(idx)))
               THEN [last_update |-> KeepUpd(my_upd),
                     last_plan_id |-> NoPlanId, err |-> "ENOMEM"]
               ELSE ScanPlans(plans, idx + 1, upto, KeepUpd(my_upd),
                              PlanId(idx), oom)
          ELSE ScanPlans(plans, idx + 1, upto, last_update, last_plan_id,
                         oom)

\* find_plan has not been called.
NoSearch == [pc |-> "off", plans |-> <<>>, page |-> 0, idx |-> 0,
             last_update |-> <<>>, last_plan_id |-> NoPlanId,
             err |-> "none", r_plan_id |-> NoPlanId]

planRest == <<storeVars, daemonVars, procVars, journalVars, tokenVars,
              progVars, execVars, preorderVars, ipnVars, dictVars, escVars,
              tm, su, ca, ck>>

\* find_plan: one turn of the loop.  PayPal answers the request for a
\* page with the plans of that page, with 204 when there are none, or
\* the request fails.
FPage(answer, oom) ==
  /\ fp.pc = "page"
  /\ LET first == fp.page * page_size + 1
         last == Min({Len(fp.plans), first + page_size - 1})
         r == ScanPlans(fp.plans, first, last, fp.last_update,
                        fp.last_plan_id, oom)
     IN fp' = IF answer # "ok"
              THEN [fp EXCEPT !.pc = "leave", !.err = answer]
              ELSE IF first > Len(fp.plans)
              THEN [fp EXCEPT !.pc = "leave"]
              ELSE [fp EXCEPT
                      !.last_update = r.last_update,
                      !.last_plan_id = r.last_plan_id,
                      !.err = r.err,
                      !.idx = last - first + 1,
                      !.page = IF r.err = "none" THEN @ + 1 ELSE @,
                      !.pc = IF r.err = "none"
                                /\ last - first + 1 = page_size
                             THEN "page" ELSE "leave"]
  /\ UNCHANGED planRest

\* find_plan: leave.
FLeave ==
  /\ fp.pc = "leave"
  /\ fp' = [fp EXCEPT !.pc = "returned",
                      !.r_plan_id = IF fp.err = "none" THEN fp.last_plan_id
                                    ELSE NoPlanId]
  /\ UNCHANGED planRest

SearchIdle == fp = NoSearch

\* ------------------------------------------- prepare, execute and charge
\* commands.c, paypal.c and stripe.c: PPCHECKOUT prepare and execute and
\* CHARGECARD, one request at a time, for the one session of the store.
\* Of the state a prepare saves, the PayPal payment id or the execute
\* URL, the access token, the amount and the recurrence are kept.
K_paypal_id == <<95, 112, 97, 121, 112, 97, 108, 58, 105, 100>>
K_hateoas_execute ==
  <<95, 112, 97, 121, 112, 97, 108, 58, 104, 97, 116, 101, 111, 97, 115, 58,
    101, 120, 101, 99, 117, 116, 101>>
K_access_token ==
  <<95, 112, 97, 121, 112, 97, 108, 58, 97, 99, 99, 101, 115, 115, 95, 116,
    111, 107, 101, 110>>
K_Amount == <<95, 65, 109, 111, 117, 110, 116>>
K_Recur == <<95, 82, 101, 99, 117, 114>>

\* Number of requests in one run.
MaxCmds == 4

\* The session the requests name, and the store that holds it alone.
OneSession == session_create(EmptyMem, 0, <<>>, 0, "none").m
SessionOne == OneSession.next_id - 1

\* What PayPal answers to the creation of a payment or of a billing
\* agreement that is to come back with alias a: the id of the payment and
\* the execute URL of the agreement.
PaymentIds == <<"PAY-1", "PAY-2", "PAY-3", "PAY-4", "PAY-5", "PAY-6">>
ExecuteUrls == <<"URL-1", "URL-2", "URL-3", "URL-4", "URL-5", "URL-6">>
PrepAmounts == {"10", "20"}

\* keyvalue_get_string (list, key).
keyvalue_get_string(list, key) ==
  IF keyvalue_find(list, key) = 0 THEN ""
  ELSE IF list[keyvalue_find(list, key)].value = NOVAL THEN ""
  ELSE list[keyvalue_find(list, key)].value

\* hlpdict of paypal_checkout_prepare at the call of session_put.
PrepareState(aliasid, amount) ==
  keyvalue_put(
    keyvalue_put(keyvalue_put(<<>>, K_paypal_id, PaymentIds[aliasid]),
                 K_access_token, "token"),
    K_Amount, amount)

\* hlpdict of paypal_create_subscription at the call of session_put.
SubscriptionState(aliasid, amount) ==
  keyvalue_put(
    keyvalue_put(
      keyvalue_put(keyvalue_put(<<>>, K_hateoas_execute,
                                ExecuteUrls[aliasid]),
                   K_access_token, "token"),
      K_Amount, amount),
    K_Recur, "12")

\* The points at which a prepare fails after session_create_alias: the
\* access token, call_paypal, the status, the validation of the response,
\* a keyvalue_put, and session_put.
PrepareFails == {"none", "token", "network", "status", "invalid", "nomem",
                 "put"}
PrepareErr(fail) ==
  CASE fail = "token" -> "NETWORK"
    [] fail = "network" -> "NETWORK"
    [] fail = "status" -> "GENERAL"
    [] fail = "invalid" -> "GENERAL"
    [] fail = "nomem" -> "ENOMEM"
    [] OTHER -> "OK"

\* No request has been served.
NoPay == [ref |-> "", amount |-> "", recur |-> ""]
NoAnswer == [cmd |-> "", err |-> "", alias |-> 0, pay |-> NoPay,
             accepted |-> FALSE, journaled |-> FALSE]
NoCheckout == [ncmd |-> 0, made |-> [i \in Ids |-> NoPay], last |-> NoAnswer,
               acc |-> 0, jrn |-> 0, dead |-> FALSE]

checkoutRest == <<daemonVars, procVars, journalVars, tokenVars, progVars,
                  execVars, preorderVars, ipnVars, dictVars, escVars,
                  tm, su, ca, fp>>

\* paypal_checkout_prepare and paypal_create_subscription from
\* session_create_alias on, with the answer of cmd_ppcheckout, after a
\* returned the alias and p is what session_put returns.
Prepared(a, p, recur, amount, fail) ==
  LET err == IF a.err # "OK" THEN a.err
             ELSE IF fail \notin {"none", "put"} THEN PrepareErr(fail)
             ELSE p.err
      pay == [ref |-> IF recur THEN ExecuteUrls[a.aliasid]
                      ELSE PaymentIds[a.aliasid],
              amount |-> amount, recur |-> IF recur THEN "12" ELSE ""]
  IN /\ a.err # "OK" => fail = "none"
     /\ fail = "put" => p.err = "ENOMEM"
     /\ SetMem(IF a.err = "OK" /\ fail \in {"none", "put"} THEN p.m ELSE a.m)
     /\ ck' = [ck EXCEPT
                 !.ncmd = @ + 1,
                 !.made = IF err = "OK" THEN [@ EXCEPT ![a.aliasid] = pay]
                          ELSE @,
                 !.last = [NoAnswer EXCEPT !.cmd = "prepare", !.err = err,
                                           !.alias = a.aliasid]]

\* PPCHECKOUT prepare for the session: a one-shot payment, or with recur a
\* subscription whose plan has been found.
KPrepare(recur, amount, fail, garbage, fault) ==
  /\ Running /\ ~ck.dead
  /\ ck.ncmd < MaxCmds
  /\ fault => garbage = WILD
  /\ garbage # NULL => strays < MaxStray
  /\ LET a == session_create_alias(Mem, SessionOne, now, "none", garbage,
                                   fault)
     IN /\ (garbage = NULL /\ ~fault) \/ a.err = "LIMIT_REACHED"
        /\ a.err = "OK" => a.aliasid <= MaxIdsB
        /\ Prepared(a,
                    IF a.err = "OK"
                    THEN session_put(a.m, SessionOne,
                                     IF recur
                                     THEN SubscriptionState(a.aliasid, amount)
                                     ELSE PrepareState(a.aliasid, amount),
                                     now, fail = "put")
                    ELSE [m |-> a.m, err |-> a.err],
                    recur, amount, fail)
  /\ strays' = IF garbage # NULL THEN strays + 1 ELSE strays
  /\ UNCHANGED <<now, ticks, hist>>
  /\ UNCHANGED checkoutRest

\* What the gateway and the handling of its answer make of a request: the
\* call fails, the gateway refuses, or it accepts and then the response
\* lacks an item, a keyvalue_put fails, or all is well.
PayResults == {"network", "refused", "garbled", "nomem", "ok"}
Accepted(out) == out \in {"garbled", "nomem", "ok"}
PayErr(out) ==
  CASE out = "network" -> "NETWORK"
    [] out = "refused" -> "GENERAL"
    [] out = "garbled" -> "GENERAL"
    [] out = "nomem" -> "ENOMEM"
    [] OTHER -> "OK"

\* The answer to a request that reached the gateway with pay, and the
\* call of jrnl_store_charge_record after success; jfail: the journal
\* cannot be written and severe_error ends the process.
Charged(cmd, alias, pay, out, jfail) ==
  [ck EXCEPT
     !.ncmd = @ + 1,
     !.acc = IF Accepted(out) THEN @ + 1 ELSE @,
     !.jrn = IF out = "ok" /\ ~jfail THEN @ + 1 ELSE @,
     !.dead = out = "ok" /\ jfail,
     !.last = [cmd |-> cmd, err |-> PayErr(out), alias |-> alias,
               pay |-> pay, accepted |-> Accepted(out),
               journaled |-> out = "ok" /\ ~jfail]]

\* paypal_checkout_execute after session_get has returned the state.
ExecuteWith(alias, state, out, jfail) ==
  LET hateoas == keyvalue_find(state, K_hateoas_execute) # 0
                   /\ state[keyvalue_find(state, K_hateoas_execute)].value
                        # NOVAL
      pay == [ref |-> IF hateoas
                      THEN keyvalue_get_string(state, K_hateoas_execute)
                      ELSE keyvalue_get_string(state, K_paypal_id),
              amount |-> keyvalue_get_string(state, K_Amount),
              recur |-> keyvalue_get_string(state, K_Recur)]
  IN IF (~hateoas /\ keyvalue_get_string(state, K_paypal_id) = "")
        \/ keyvalue_get_string(state, K_access_token) = ""
     THEN [ck EXCEPT !.ncmd = @ + 1,
                     !.last = [NoAnswer EXCEPT !.cmd = "execute",
                                               !.err = "MISSING_VALUE",
                                               !.alias = alias]]
     ELSE Charged("execute", alias, pay, out, jfail)

\* The three calls into the session store at the start of
\* paypal_checkout_execute.
ExecuteState(m, alias, t) ==
  LET g == session_get_sessid(m, alias, FALSE)
      d == do_destroy_alias(g.m, alias, NULL)
      r == session_get(d.m, g.sessid, t, FALSE)
  IN IF g.err # "OK" THEN [m |-> g.m, err |-> g.err, dict |-> <<>>]
     ELSE IF d.err # "OK" THEN [m |-> d.m, err |-> d.err, dict |-> <<>>]
     ELSE r

\* PPCHECKOUT execute with Alias-Id alias; an Amount in the request is
\* replaced by restore_field.
KExecute(alias, out, jfail) ==
  /\ Running /\ ~ck.dead
  /\ ck.ncmd < MaxCmds
  /\ LET r == ExecuteState(Mem, alias, now)
     IN /\ r.err # "OK" => (out = "network" /\ ~jfail)
        /\ jfail => out = "ok"
        /\ SetMem(r.m)
        /\ ck' = IF r.err # "OK"
                 THEN [ck EXCEPT !.ncmd = @ + 1,
                                 !.last = [NoAnswer EXCEPT
                                             !.cmd = "execute",
                                             !.err = r.err,
                                             !.alias = alias]]
                 ELSE ExecuteWith(alias, r.dict, out, jfail)
  /\ UNCHANGED <<now, ticks, strays, hist>>
  /\ UNCHANGED checkoutRest

\* CHARGECARD without recurrence: stripe_charge_card, reconvert_amount
\* and jrnl_store_charge_record.
KCharge(amount, out, jfail) ==
  /\ Running /\ ~ck.dead
  /\ ck.ncmd < MaxCmds
  /\ jfail => out = "ok"
  /\ ck' = Charged("charge", 0,
                   [ref |-> "card", amount |-> amount, recur |-> ""],
                   out, jfail)
  /\ UNCHANGED storeVars
  /\ UNCHANGED checkoutRest

CheckoutIdle == ck = NoCheckout

\* What came last has not been run.
OtherIdle ==
  TimerIdle /\ StartIdle /\ AmountIdle /\ SearchIdle /\ CheckoutIdle

\* The commands that came after the journal, the token cache and the lock
\* programs have not been run.
RestIdle ==
  ExecIdle /\ PreorderIdle /\ IpnIdle /\ DictIdle /\ EscIdle /\ OtherIdle

ThreadsIdle ==
  /\ ProcIdle /\ JournalIdle /\ TokenIdle /\ ProgIdle /\ RestIdle

FailsCreate == {"none", "calloc", "zb32", "put"}
FailsAlias == {"none", "calloc", "zb32"}

\* The ids a client can send: those handed out so far, and a malformed one.
KnownIds == 0..(next_id - 1)

\* The values the uninitialized pointer can hold: NULL, the address of an
\* alias object of the store, or an address outside the store.
Garbage == {NULL, WILD} \cup aalloc

Init ==
  /\ now = 0
  /\ ticks = 0
  /\ \E b \in BulkChoices :
       IsMem([EmptyMem EXCEPT !.bulk = b, !.sessions_in_use = b])
  /\ strays = 0
  /\ hist = [i \in Ids |-> NoHist]
  /\ DaemonIdle
  /\ ThreadsIdle

Next ==
  \/ \E ttl \in TtlArgs, d \in Dicts, fail \in FailsCreate :
       Create(MaxIds, MaxSess, ttl, d, fail)
  \/ \E id \in KnownIds : Destroy(id)
  \/ \E id \in KnownIds, oom \in BOOLEAN : Get(id, oom)
  \/ \E id \in KnownIds, d \in Dicts, oom \in BOOLEAN : Put(id, d, oom)
  \/ \E id \in KnownIds, fail \in FailsAlias, g \in Garbage,
        fault \in BOOLEAN : Alias(MaxIds, id, fail, g, fault)
  \/ \E id \in KnownIds : Dealias(id)
  \/ \E id \in KnownIds, oom \in BOOLEAN : Sessid(id, oom)
  \/ \E d \in TimeSteps : Tick(d)
  \/ \E delay \in HkDelays : Housekeeping(delay)

Spec == Init /\ [][Next]_vars

\* ------------------------------------------- a session with all its aliases
\* The store after a client has created a session with the given ttl and
\* three aliases of it, all at time 0.
FullMem(ttl) ==
  LET m1 == session_create(EmptyMem, ttl, <<>>, 0, "none").m
      m2 == session_create_alias(m1, 1, 0, "none", NULL, FALSE).m
      m3 == session_create_alias(m2, 1, 0, "none", NULL, FALSE).m
  IN session_create_alias(m3, 1, 0, "none", NULL, FALSE).m

InitA ==
  /\ now = 0
  /\ ticks = 0
  /\ strays = 0
  /\ \E ttl \in TtlArgs :
       /\ IsMem(FullMem(ttl))
       /\ hist = [i \in Ids |->
               IF i = 1
               THEN [NoHist EXCEPT !.kind = "sess", !.ttl = ttl,
                                   !.used = TRUE]
               ELSE IF i \in 2..(1 + MAX_ALIASES_PER_SESSION)
               THEN [NoHist EXCEPT !.kind = "alias", !.owner = 1]
               ELSE NoHist]
  /\ DaemonIdle
  /\ ThreadsIdle

\* The ids handed out so far.
GivenIds == 1..(next_id - 1)

NextA ==
  \/ \E id \in GivenIds : Destroy(id)
  \/ \E id \in GivenIds, oom \in BOOLEAN : Get(id, oom)
  \/ \E id \in GivenIds, d \in Dicts, oom \in BOOLEAN : Put(id, d, oom)
  \/ \E id \in GivenIds, g \in Garbage, fault \in BOOLEAN :
       Alias(MaxIdsA, id, "none", g, fault)
  \/ \E id \in GivenIds : Dealias(id)
  \/ \E id \in GivenIds : Sessid(id, FALSE)
  \/ \E d \in TimeSteps : Tick(d)
  \/ \E delay \in HkDelays : Housekeeping(delay)

SpecA == InitA /\ [][NextA]_vars

\* Two threads serve PPCHECKOUT execute requests for the aliases of the
\* session while prepare requests ask for more aliases and time passes.
NextX ==
  \/ \E t \in Threads, a \in GivenIds : XStart(t, a)
  \/ \E t \in Threads, oom \in BOOLEAN : XSessid(t, oom)
  \/ \E t \in Threads : XDestroy(t)
  \/ \E t \in Threads, oom \in BOOLEAN : XGet(t, oom)
  \/ \E t \in Threads, out \in PayOutcomes : XPay(t, out)
  \/ \E t \in Threads : XJournal(t)
  \/ \E id \in GivenIds, g \in Garbage, fault \in BOOLEAN :
       Alias(MaxIdsA, id, "none", g, fault)
  \/ Tick(MAX_SESSION_LIFETIME)

SpecX == InitA /\ [][NextX]_vars

\* Clients put into the session and get from it, a checkout backs up its
\* state in it and more aliases are asked for, while the clock stands.
NextS ==
  \/ \E rd \in PutRequests, oom \in BOOLEAN : SPut(1, rd, oom)
  \/ \E rd \in PutRequests : SPutUnread(1, rd)
  \/ \E id \in {1, 2}, oom \in BOOLEAN : SGet(id, oom)
  \/ \E id \in {1, 2} : SBackup(id)
  \/ \E id \in {1, 2}, g \in Garbage, fault \in BOOLEAN :
       Alias(MaxIdsA, id, "none", g, fault)

SpecS == InitA /\ [][NextS]_vars

\* The store after a second session, with the default ttl, has been created
\* as well, while the clock stands.
InitB ==
  /\ now = 0
  /\ ticks = 0
  /\ IsMem(session_create(FullMem(ShortTtl), 0, <<>>, 0, "none").m)
  /\ strays = 0
  /\ hist = [i \in Ids |->
               IF i \in {1, 2 + MAX_ALIASES_PER_SESSION}
               THEN [NoHist EXCEPT !.kind = "sess",
                                   !.ttl = IF i = 1 THEN ShortTtl ELSE 0,
                                   !.used = (i = 1)]
               ELSE IF i \in 2..(1 + MAX_ALIASES_PER_SESSION)
               THEN [NoHist EXCEPT !.kind = "alias", !.owner = 1]
               ELSE NoHist]
  /\ DaemonIdle
  /\ ThreadsIdle

NextB ==
  \/ \E id \in GivenIds : Destroy(id)
  \/ \E id \in GivenIds, g \in Garbage, fault \in BOOLEAN :
       Alias(MaxIdsB, id, "none", g, fault)
  \/ \E id \in GivenIds : Dealias(id)
  \/ \E id \in GivenIds : Sessid(id, FALSE)

SpecB == InitB /\ [][NextB]_vars

\* The session store before any request.
StoreIdle ==
  /\ now = 0
  /\ ticks = 0
  /\ IsMem(EmptyMem)
  /\ strays = 0
  /\ hist = [i \in Ids |-> NoHist]

\* ------------------------------------------- one connection after another
\* The uids named in options, the requests of the peers.
OptUids == 1..(MaxUid - 1)
HeadsC == {"PING", "SHUTDOWN", "LISTPREORDER", "COMMITPREORDER", "shutdown"}
RequestsC == {r \in Requests : r.line.head \in HeadsC \cup {"NOP"}}

InitC == DaemonIdle /\ StoreIdle /\ ThreadsIdle

NextC ==
  \/ \E uid \in OptUids, also_admin \in BOOLEAN : AddAllowedUid(uid, also_admin)
  \/ StartServer
  \/ Accept(1)
  \/ \E uid \in Uids, credfail \in BOOLEAN : WorkerStart(1, uid, credfail)
  \/ \E req \in RequestsC : WorkerServe(1, req)
  \/ WorkerFinish(1)
  \/ HandleSignal("TERM")
  \/ ShutdownTest

SpecC == InitC /\ [][NextC]_vars

\* ------------------------------------------------- connections and signals
\* The daemon in server_loop after "--admin-uid 1 --allow-uid 2".
\* The daemon in its main loop, its options read.
DaemonServing ==
  /\ dstate = "serving"
  /\ exit_how = ""
  /\ allowed_uids = <<1, 2>>
  /\ allowed_admin_uids = <<1>>
  /\ shutdown_pending = 0
  /\ sig_pending = {}
  /\ nsignals = 0
  /\ active_connections = 0
  /\ conn = [w \in Workers |-> FreeConn]
  /\ effects = {}

InitD == DaemonServing /\ StoreIdle /\ ThreadsIdle

Signals == {"TERM", "INT"}
RequestsD == {r \in Requests : r.kind = "read" /\ r.line.next = "end"
                               /\ r.line.head \in {"PING", "SHUTDOWN"}}

NextD ==
  \/ \E w \in Workers : Accept(w)
  \/ \E w \in Workers, uid \in OptUids : WorkerStart(w, uid, FALSE)
  \/ \E w \in Workers, req \in RequestsD : WorkerServe(w, req)
  \/ \E w \in Workers : WorkerFinish(w)
  \/ \E signo \in Signals : Signal(signo)
  \/ \E signo \in Signals : HandleSignal(signo)
  \/ ShutdownTest

SpecD == InitD /\ [][NextD]_vars

\* The main loop comes round again and again (npth_pselect returns at the
\* latest at the next timer tick), and every worker that is active gets on.
FairD ==
  /\ WF_vars(\E signo \in Signals : HandleSignal(signo))
  /\ WF_vars(ShutdownTest)
  /\ \A w \in Workers :
       /\ WF_vars(\E req \in RequestsD : WorkerServe(w, req))
       /\ WF_vars(WorkerFinish(w))

SpecDL == InitD /\ [][NextD]_vars /\ FairD

\* --------------------------------------------------- writers of the journal
\* The daemon serves, with or without --journal; the threads write records
\* while the days pass.
InitJ ==
  /\ DaemonServing
  /\ StoreIdle
  /\ ProcIdle
  /\ TokenIdle
  /\ ProgIdle
  /\ RestIdle
  /\ \E enabled \in BOOLEAN :
       logfile = [basename |-> enabled, fp |-> FALSE, suffix |-> 0]
  /\ jfiles = [d \in Days |-> <<>>]
  /\ jnext = 1
  /\ jw = [t \in Threads |-> IdleWriter]

NextJ ==
  \/ \E t \in Threads : JCompose(t)
  \/ \E t \in Threads : JSkip(t)
  \/ \E t \in Threads : JLock(t)
  \/ \E t \in Threads, closefail \in BOOLEAN, openfail \in BOOLEAN :
       JOpen(t, closefail, openfail)
  \/ \E t \in Threads, fail \in BOOLEAN : JPut(t, fail)
  \/ \E t \in Threads : JUnlock(t)
  \/ \E d \in DaySteps : Advance(d, MaxDays * SecsPerDay)

SpecJ == InitJ /\ [][NextJ]_vars

\* ---------------------------------------------------- callers of the cache
InitP == DaemonServing /\ StoreIdle /\ ThreadsIdle

NextP ==
  \/ \E t \in Threads : TCall(t)
  \/ \E t \in Threads, nomem \in BOOLEAN : TCheck(t, nomem)
  \/ \E t \in Threads, out \in Outcomes : TResponse(t, out)
  \/ Bearer401
  \/ \E d \in TokenSteps : Advance(d, HorizonP)

SpecP == InitP /\ [][NextP]_vars

\* ------------------------------------------------- handlers and locks
InitL == DaemonServing /\ StoreIdle /\ ThreadsIdle

NextL ==
  \/ \E t \in Threads, p \in Programs : LStart(t, p)
  \/ \E t \in Threads : LLock(t)
  \/ \E t \in Threads : LUnlock(t)
  \/ \E t \in Threads : LHttp(t)
  \/ \E t \in Threads : LExit(t)
  \/ \E t \in Threads : LReturn(t)

SpecL == InitL /\ [][NextL]_vars

\* Threads serve PPIPNHD requests.
InitI == DaemonServing /\ StoreIdle /\ ThreadsIdle

NextI ==
  \/ \E t \in Threads, req \in IpnRequests : IStart(t, req)
  \/ \E t \in Threads : IReply(t)
  \/ \E t \in Threads : IShutdown(t)
  \/ \E t \in Threads : IProc(t)
  \/ \E t \in Threads, answer \in VerifyAnswers : IVerify(t, answer)
  \/ \E t \in Threads : IReturn(t)
  \/ \E t \in Threads : IRelease(t)

SpecI == InitI /\ [][NextI]_vars

\* Threads serve SEPAPREORDER, COMMITPREORDER and GETPREORDER requests.
PreorderCmds ==
  {<<"insert", NoSepaRef>>} \cup ({"commit", "get"} \X SepaRefs)

InitO == DaemonServing /\ StoreIdle /\ ThreadsIdle

NextO ==
  \/ \E t \in Threads, c \in PreorderCmds : PStart(t, c[1], c[2])
  \/ \E t \in Threads, fail \in BOOLEAN : POpen(t, fail)
  \/ \E t \in Threads, r \in Refs, i \in RefNNs,
        out \in {"none", "nomem", "sqlerr"} : PInsert(t, r, i, out, MaxClash)
  \/ \E t \in Threads, oom \in BOOLEAN : PGet(t, oom)
  \/ \E t \in Threads,
        fail \in {"none", "amount", "sqlerr", "timestamp"} : PUpdate(t, fail)
  \/ \E t \in Threads : PJournal(t)
  \/ \E t \in Threads : PClose(t)

SpecO == InitO /\ [][NextO]_vars

\* One SEPAPREORDER request after the other meets a table that holds a row
\* for every reference the nonces give, or for all but one.
FullRows ==
  [r \in Refs |-> [present |-> TRUE, refnn |-> 10, paid |-> 0, npaid |-> 0,
                   req |-> 0]]

InitR ==
  /\ DaemonServing /\ StoreIdle
  /\ ProcIdle /\ JournalIdle /\ TokenIdle /\ ProgIdle /\ ExecIdle /\ IpnIdle
  /\ DictIdle
  /\ EscIdle
  /\ OtherIdle
  /\ \E rows \in {FullRows, [FullRows EXCEPT ![1] = NoRow]} :
       ptab = [open |-> TRUE, rows |-> rows]
  /\ pq = [t \in Threads |-> NoCmd]
  /\ plog = [nreq |-> 0, ret |-> {}, commits |-> [r \in Refs |-> 0],
             journal |-> {}]

NextR ==
  \/ PStart(1, "insert", NoSepaRef)
  \/ POpen(1, FALSE)
  \/ \E r \in Refs, i \in RefNNs : PInsert(1, r, i, "none", RetryLimit)
  \/ PClose(1)

SpecR == InitR /\ [][NextR]_vars

\* A field of up to MaxLen bytes is written to the journal and read back.
InitE ==
  /\ StoreIdle
  /\ DaemonServing
  /\ ProcIdle /\ JournalIdle /\ TokenIdle /\ ProgIdle
  /\ ExecIdle /\ PreorderIdle /\ IpnIdle /\ DictIdle /\ OtherIdle
  /\ \E s \in Fields(MaxLen) : pe = [NoField EXCEPT !.pc = "field", !.s = s]

NextE == EWrite \/ ERead

SpecE == InitE /\ [][NextE]_vars

\* The main loop runs for HorizonT seconds with an empty session store.
InitT == DaemonServing /\ StoreIdle /\ ThreadsIdle

NextT ==
  \/ TEnter
  \/ TLoop
  \/ \E early \in BOOLEAN, late \in 0..MaxLate : TSelect(early, late, HorizonT)
  \/ THousekeeping

SpecT == InitT /\ [][NextT]_vars

\* create_socket is called once, whatever the system answers.
InitU ==
  /\ StoreIdle
  /\ DaemonServing
  /\ ProcIdle /\ JournalIdle /\ TokenIdle /\ ProgIdle
  /\ ExecIdle /\ PreorderIdle /\ IpnIdle /\ DictIdle /\ EscIdle /\ TimerIdle
  /\ AmountIdle /\ SearchIdle /\ CheckoutIdle
  /\ \E e \in StartEnvs : su = [NoStart EXCEPT !.pc = "bind", !.env = e]

NextU == UBind \/ UProbe \/ URetry \/ UListen

SpecU == InitU /\ [][NextU]_vars

\* One amount is converted.
InitV ==
  /\ StoreIdle
  /\ DaemonServing
  /\ ProcIdle /\ JournalIdle /\ TokenIdle /\ ProgIdle
  /\ ExecIdle /\ PreorderIdle /\ IpnIdle /\ DictIdle /\ EscIdle /\ TimerIdle
  /\ StartIdle /\ SearchIdle /\ CheckoutIdle
  /\ \E s \in AmountStrings, d \in DecDigits :
       ca = [NoAmount EXCEPT !.pc = "string", !.string = s, !.decdigits = d]

NextV == CConvert

SpecV == InitV /\ [][NextV]_vars

\* One search through a listing of up to MaxPlans plans.
InitF ==
  /\ StoreIdle
  /\ DaemonServing
  /\ ProcIdle /\ JournalIdle /\ TokenIdle /\ ProgIdle
  /\ ExecIdle /\ PreorderIdle /\ IpnIdle /\ DictIdle /\ EscIdle /\ TimerIdle
  /\ StartIdle /\ AmountIdle /\ CheckoutIdle
  /\ \E l \in PlanLists(MaxPlans) :
       fp = [NoSearch EXCEPT !.pc = "page", !.plans = l]

NextF ==
  \/ \E answer \in {"ok", "status", "network"}, oom \in BOOLEAN :
       FPage(answer, oom)
  \/ FLeave

SpecF == InitF /\ [][NextF]_vars

\* A client has created a session; prepare and execute requests for it
\* and card charges follow one another.
InitK ==
  /\ now = 0
  /\ ticks = 0
  /\ strays = 0
  /\ IsMem(OneSession)
  /\ hist = [i \in Ids |-> NoHist]
  /\ DaemonServing
  /\ ThreadsIdle

NextK ==
  \/ \E recur \in BOOLEAN, amount \in PrepAmounts, fail \in PrepareFails,
        g \in Garbage, fault \in BOOLEAN :
       KPrepare(recur, amount, fail, g, fault)
  \/ \E alias \in GivenIds, out \in PayResults, jfail \in BOOLEAN :
       KExecute(alias, out, jfail)
  \/ \E amount \in PrepAmounts, out \in PayResults, jfail \in BOOLEAN :
       KCharge(amount, out, jfail)

SpecK == InitK /\ [][NextK]_vars

\* ------------------------------------------------------------------ claims
\* The sessions and aliases the clients have been given.
SessIds == {i \in Ids : hist[i].kind = "sess"}
AliasIds == {i \in Ids : hist[i].kind = "alias"}

\* Only gets at the time of its creation have named session s.
Fresh(s) == s \in SessIds /\ ~hist[s].used

\* The session objects in the index.
RECURSIVE SessChain(_, _)
SessChain(m, p) ==
  IF p = NULL THEN {} ELSE {p} \cup SessChain(m, m.sess[p].next)

LiveSess(m) == UNION {SessChain(m, m.sessions[b]) : b \in Buckets}

\* C4: for a session created with 0 < ttl <= 6 h, a get at the time of the
\* creation succeeds, and a get ttl+1 seconds or more after it, with no
\* access in between, returns NOT_FOUND and leaves the session out of the
\* index.
C4_SessionTtl ==
  \A s \in Ids :
    (Fresh(s) /\ hist[s].ttl > 0 /\ hist[s].ttl <= MAX_SESSION_LIFETIME) =>
      LET r == session_get(Mem, s, now, FALSE) IN
      /\ now = hist[s].created => r.err = "OK"
      /\ now >= hist[s].created + hist[s].ttl + 1 =>
           r.err = "NOT_FOUND" /\ ~InSessIndex(r.m, s)

\* A session that has been idle for ttl+1 seconds is still in the index and
\* the get removes it.
C4_Witness ==
  \E s \in Ids :
    /\ Fresh(s) /\ hist[s].ttl > 0 /\ hist[s].ttl <= MAX_SESSION_LIFETIME
    /\ now >= hist[s].created + hist[s].ttl + 1
    /\ InSessIndex(Mem, s)
    /\ session_get(Mem, s, now, FALSE).err = "NOT_FOUND"
    /\ ~InSessIndex(session_get(Mem, s, now, FALSE).m, s)

\* C6: more than 6 h after its creation no get, put or create_alias finds
\* a session, whatever ttl was requested and however recently it was
\* accessed; the ttl a session is given is never above 6 h.
C6_LifetimeCap ==
  /\ \A o \in LiveSess(Mem) : sess[o].ttl <= MAX_SESSION_LIFETIME
  /\ \A s \in SessIds :
       now > hist[s].created + MAX_SESSION_LIFETIME =>
         /\ \A oom \in BOOLEAN :
              session_get(Mem, s, now, oom).err = "NOT_FOUND"
         /\ \A d \in Dicts, oom \in BOOLEAN :
              session_put(Mem, s, d, now, oom).err = "NOT_FOUND"
         /\ \A fail \in FailsAlias, g \in Garbage, fault \in BOOLEAN :
              session_create_alias(Mem, s, now, fail, g, fault).err
                = "NOT_FOUND"

\* A session requested with more than 6 h, accessed 6 h after its creation
\* and so within its idle window, is refused one second later.
C6_Witness ==
  \E s \in SessIds :
    LET o == SessObjOf(Mem, s) IN
    /\ o # NULL
    /\ hist[s].ttl > MAX_SESSION_LIFETIME
    /\ now > hist[s].created + MAX_SESSION_LIFETIME
    /\ sess[o].accessed > sess[o].created
    /\ sess[o].accessed + sess[o].ttl >= now
    /\ session_get(Mem, s, now, FALSE).err = "NOT_FOUND"

\* C7: the number of live sessions is the counter sessions_in_use and never
\* exceeds MAX_SESSIONS; a create while MAX_SESSIONS sessions are live
\* returns LIMIT_REACHED and changes nothing in the store.
C7_SessionLimit ==
  /\ sessions_in_use <= MAX_SESSIONS
  /\ Cardinality(LiveSess(Mem)) + bulk = sessions_in_use
  /\ sessions_in_use >= MAX_SESSIONS =>
       \A ttl \in TtlArgs, d \in Dicts, fail \in FailsCreate :
         session_create(Mem, ttl, d, now, fail)
           = [m |-> Mem, err |-> "LIMIT_REACHED", sessid |-> 0]

\* The limit is reached by a create that recycled a pooled session object,
\* and the next create is refused.
C7_Witness ==
  /\ sessions_in_use = MAX_SESSIONS
  /\ \E s \in SessIds, r \in SessIds :
       /\ InSessIndex(Mem, s)
       /\ hist[r].gone
       /\ r < s
       /\ SessObjOf(Mem, s) = Min(SObjs)
  /\ session_create(Mem, 0, <<>>, now, "none").err = "LIMIT_REACHED"

\* The ttl a session requested with ttl t is to have.
EffTtl(t) ==
  IF t > MAX_SESSION_LIFETIME THEN MAX_SESSION_LIFETIME
  ELSE IF t > 0 THEN t ELSE DEFAULT_TTL

\* A get of session s at time t finds it in store m.
Retrievable(m, s, t) == session_get(m, s, t, FALSE).err = "OK"

\* The seconds ahead of a call at which the session is looked at again.
Ahead == {0, 1, ShortTtl, ShortTtl + 1, DEFAULT_TTL, DEFAULT_TTL + 1,
          MAX_SESSION_LIFETIME, MAX_SESSION_LIFETIME + 1}

\* d seconds after an access at time t, session s is within its idle
\* window and its lifetime.
InWindow(s, t, d) ==
  /\ d <= EffTtl(hist[s].ttl)
  /\ t + d <= hist[s].created + MAX_SESSION_LIFETIME

\* The results of the calls that look session s up, and of those that do
\* not, in the current state.
Lookups(s) ==
  {[m |-> r.m, err |-> r.err] :
     r \in {session_get(Mem, s, now, oom) : oom \in BOOLEAN}
       \cup {session_put(Mem, s, d[1], now, d[2]) : d \in Dicts \X BOOLEAN}
       \cup {session_create_alias(Mem, s, now, "none", g, FALSE) :
               g \in Garbage}}

Others ==
  {[m |-> r.m, err |-> r.err] :
     r \in {session_get_sessid(Mem, a, FALSE) : a \in Ids}
       \cup {do_destroy_alias(Mem, a, NULL) : a \in Ids}
       \cup {session_create(Mem, t, <<>>, now, "none") : t \in TtlArgs}
       \cup {[m |-> session_housekeeping(Mem, now), err |-> "OK"]}}

\* The life of session s is the same after the call with result r.
SameLife(s, r) ==
  \A d \in Ahead : Retrievable(r.m, s, now + d) = Retrievable(Mem, s, now + d)

\* After the call with result r, at time now, session s is retrievable
\* exactly within the window that starts now.
LifeReset(s, r) ==
  \A d \in Ahead : Retrievable(r.m, s, now + d) = InWindow(s, now, d)

\* C5: every get, put and create_alias that finds the session restarts its
\* idle window at the time of the call, whatever the call then returns (OK,
\* ENOMEM or LIMIT_REACHED); get_sessid, destroy_alias, the creation of
\* another session and housekeeping leave the life of the session as it is.
C5_IdleReset ==
  \A s \in SessIds :
    InSessIndex(Mem, s) =>
      /\ \A r \in Lookups(s) : r.err # "NOT_FOUND" => LifeReset(s, r)
      /\ \A r \in Others : SameLife(s, r)

\* One second into its idle window a session with aliases is about to
\* expire; a get and a refused create_alias keep it alive, a get_sessid of
\* one of its aliases does not.
C5_Witness ==
  \E s \in SessIds, a \in AliasIds :
    /\ InSessIndex(Mem, s)
    /\ hist[a].owner = s
    /\ ~Retrievable(Mem, s, now + EffTtl(hist[s].ttl))
    /\ Retrievable(session_get(Mem, s, now, FALSE).m, s,
                   now + EffTtl(hist[s].ttl))
    /\ LET r == session_create_alias(Mem, s, now, "none", NULL, FALSE) IN
       /\ r.err = "LIMIT_REACHED"
       /\ Retrievable(r.m, s, now + EffTtl(hist[s].ttl))
    /\ LET r == session_get_sessid(Mem, a, FALSE) IN
       /\ r.err = "OK"
       /\ ~Retrievable(r.m, s, now + EffTtl(hist[s].ttl))

\* C5 as stated: a successful get, put or create_alias restarts the idle
\* window and no other call, an unsuccessful one included, changes the life
\* of the session.
C5_OnlySuccessResets ==
  \A s \in SessIds :
    InSessIndex(Mem, s) =>
      /\ \A r \in Lookups(s) :
           IF r.err = "OK" THEN LifeReset(s, r) ELSE SameLife(s, r)
      /\ \A r \in Others : SameLife(s, r)

\* The aliases of session s that the clients have not destroyed.
LiveAliases(s) == {a \in AliasIds : hist[a].owner = s /\ ~hist[a].gone}

\* C8: while an alias has not been destroyed and its session is in the
\* index, get_sessid of the alias returns the session; after a successful
\* destroy_alias it returns NOT_FOUND.
C8_AliasResolves ==
  \A a \in AliasIds :
    /\ (~hist[a].gone /\ InSessIndex(Mem, hist[a].owner)) =>
         LET r == session_get_sessid(Mem, a, FALSE) IN
         r.err = "OK" /\ r.sessid = hist[a].owner
    /\ LET r == do_destroy_alias(Mem, a, NULL) IN
       r.err = "OK" => session_get_sessid(r.m, a, FALSE).err = "NOT_FOUND"

\* The aliases of session s resolve to nothing in store m.
AliasesGone(m, s) ==
  \A a \in AliasIds :
    hist[a].owner = s => session_get_sessid(m, a, FALSE).err = "NOT_FOUND"

\* Every alias that resolves in store m resolves to a session in the index.
ResolveIndexed(m) ==
  \A a \in Ids :
    LET r == session_get_sessid(m, a, FALSE) IN
    r.err = "OK" => InSessIndex(m, r.sessid)

\* C9: an alias never resolves to a session that is not in the index, and
\* after a destroy, an expiry detected on access and a housekeeping sweep
\* the aliases of the sessions removed resolve to nothing.
C9_DestroyTakesAliases ==
  /\ ResolveIndexed(Mem)
  /\ \A s \in SessIds :
       /\ LET r == session_do_destroy(Mem, s) IN
          r.err = "OK" => AliasesGone(r.m, s) /\ ResolveIndexed(r.m)
       /\ LET r == session_get(Mem, s, now, FALSE) IN
          r.err = "NOT_FOUND" => AliasesGone(r.m, s) /\ ResolveIndexed(r.m)
       /\ LET m == session_housekeeping(Mem, now) IN
          ~InSessIndex(m, s) => AliasesGone(m, s) /\ ResolveIndexed(m)

\* C10: a live session has at most MAX_ALIASES_PER_SESSION live aliases,
\* and a create_alias on it returns OK when it has fewer and LIMIT_REACHED
\* when it has that many.
C10_AliasLimit ==
  \A s \in SessIds :
    LET o == SessObjOf(Mem, s) IN
    (Running /\ o # NULL /\ ~check_ttl(sess[o], now)) =>
      /\ Cardinality(LiveAliases(s)) <= MAX_ALIASES_PER_SESSION
      /\ \A g \in Garbage, fault \in BOOLEAN :
           LET r == session_create_alias(Mem, s, now, "none", g, fault) IN
           /\ r.m.proc = "run"
           /\ r.err = IF Cardinality(LiveAliases(s)) < MAX_ALIASES_PER_SESSION
                      THEN "OK" ELSE "LIMIT_REACHED"

\* The seconds after which a sweep looks at the store, no call in between.
SweepAhead == {0, ShortTtl + 1, DEFAULT_TTL + 1, MAX_SESSION_LIFETIME + 1}

\* Session object o is due at time t.
Due(o, t) ==
  \/ sess[o].accessed + sess[o].ttl < t
  \/ sess[o].created + MAX_SESSION_LIFETIME < t

\* C11: a housekeeping sweep at time t removes exactly the sessions that
\* are due at t from the index, their aliases resolve to nothing afterwards,
\* and every other session keeps its data and every other alias resolves
\* as before.
C11_SweepExact ==
  Running =>
    \A d \in SweepAhead :
      LET t == now + d
          m == session_housekeeping(Mem, t)
      IN
      /\ m.proc = "run"
      /\ LiveSess(m) = {o \in LiveSess(Mem) : ~Due(o, t)}
      /\ \A o \in LiveSess(m) :
           [m.sess[o] EXCEPT !.next = NULL] = [sess[o] EXCEPT !.next = NULL]
      /\ \A a \in Ids :
           LET r0 == session_get_sessid(Mem, a, FALSE)
               r1 == session_get_sessid(m, a, FALSE)
           IN IF r0.err = "OK" /\ InSessIndex(m, r0.sessid)
              THEN r1.err = "OK" /\ r1.sessid = r0.sessid
              ELSE r1.err = "NOT_FOUND"

\* The connections whose request connection_handler has dealt with.
Dealt == {w \in Workers : conn[w].st \in {"served", "closed"}
                          /\ conn[w].req.kind # "none"}

\* The peer's request was read and names an admin-tagged command.
AdminRequest(c) ==
  /\ c.req.kind = "read"
  /\ c.req.line.next \in {"end", "space"}
  /\ c.req.line.head \in {"COMMITPREORDER", "GETPREORDER", "LISTPREORDER",
                          "SHUTDOWN"}

NotAdmin(c) == \A i \in 1..Len(allowed_admin_uids) : allowed_admin_uids[i] # c.uid

\* The allow-list is in force and does not name the peer.
NotAllowed(c) ==
  /\ Len(allowed_uids) > 0
  /\ \A i \in 1..Len(allowed_uids) : allowed_uids[i] # c.uid

\* The connection ran no handler and did nothing to sessions, journal,
\* database or gateways, and asked for no shutdown.
NoEffect(c) == c.handler = "none" /\ c.did = {}

\* C1: a request for an admin-tagged command from a peer that is not an
\* admin runs no handler and has no side effect; it is answered with ERR
\* FORBIDDEN (User is not an admin), or with ERR EPERM (User not allowed)
\* if the allow-list is in force and does not name the peer.
C1_AdminOnly ==
  \A w \in Dealt :
    (AdminRequest(conn[w]) /\ NotAdmin(conn[w])) =>
      /\ NoEffect(conn[w])
      /\ conn[w].reply =
           IF NotAllowed(conn[w])
           THEN [err |-> "EPERM", desc |-> "User not allowed", eol |-> TRUE]
           ELSE [err |-> "FORBIDDEN", desc |-> "User is not an admin",
                 eol |-> TRUE]

\* An allowed peer that is not an admin has sent SHUTDOWN and was answered
\* FORBIDDEN; no signal is pending and the daemon serves on.
C1_Witness ==
  \E w \in Dealt :
    /\ AdminRequest(conn[w]) /\ NotAdmin(conn[w]) /\ ~NotAllowed(conn[w])
    /\ Len(allowed_uids) > 0
    /\ conn[w].req.line.head = "SHUTDOWN"
    /\ conn[w].reply.err = "FORBIDDEN"
    /\ NoEffect(conn[w])
    /\ sig_pending = {} /\ shutdown_pending = 0 /\ dstate = "serving"

\* C1 as stated: every such request is answered with ERR FORBIDDEN.
C1_AlwaysForbidden ==
  \A w \in Dealt :
    (AdminRequest(conn[w]) /\ NotAdmin(conn[w])) =>
      /\ NoEffect(conn[w])
      /\ conn[w].reply.err = "FORBIDDEN"

\* C2: a peer that the allow-list in force does not name runs no handler
\* and has no side effect, whatever it sends; it is answered with ERR EPERM
\* (User not allowed) once its request has been read, with the read error
\* if the request cannot be read, and not at all if the stream cannot be
\* opened.
C2_NotAllowed ==
  \A w \in Dealt :
    NotAllowed(conn[w]) =>
      /\ NoEffect(conn[w])
      /\ conn[w].reply =
           CASE conn[w].req.kind = "read" ->
                  [err |-> "EPERM", desc |-> "User not allowed", eol |-> TRUE]
             [] conn[w].req.kind = "unread" ->
                  [err |-> conn[w].req.err, desc |-> "", eol |-> FALSE]
             [] OTHER -> NoReply

\* A peer outside the allow-list has sent PING and was answered EPERM.
C2_Witness ==
  \E w \in Dealt :
    /\ NotAllowed(conn[w])
    /\ conn[w].req.kind = "read"
    /\ conn[w].req.line = [head |-> "PING", next |-> "end"]
    /\ conn[w].reply.err = "EPERM"
    /\ NoEffect(conn[w])

\* C2 as stated: the connection of such a peer is rejected with EPERM.
C2_AlwaysEperm ==
  \A w \in Dealt :
    NotAllowed(conn[w]) =>
      /\ NoEffect(conn[w])
      /\ conn[w].reply.err = "EPERM"

\* The connections accepted and not yet completely handled.
Unfinished == {w \in Workers : conn[w].st \in {"spawned", "active", "served"}}

\* C12: once shutdown is pending no connection is accepted, and short of a
\* forced exit the process exits only when every connection it accepted
\* has been handled completely.
C12_DrainBeforeExit ==
  /\ []((dstate = "exited" /\ exit_how = "drained") => Unfinished = {})
  /\ [][shutdown_pending > 0 =>
          \A w \in Workers :
            conn'[w].st = "spawned" => conn[w].st = "spawned"]_vars

\* C13: the main loop that takes a SIGINT exits at once, whatever the
\* workers are doing.
C13_SigintImmediate ==
  [][("INT" \in sig_pending /\ "INT" \notin sig_pending') =>
       (dstate' = "exited" /\ exit_how' = "sigint" /\ conn' = conn)]_vars

\* The process has exited on SIGINT while a worker was handling a request.
C13_Witness ==
  /\ dstate = "exited" /\ exit_how = "sigint"
  /\ \E w \in Workers : conn[w].st = "active"

\* C13 as stated: when the process exits on SIGINT the workers that were
\* active have finished.
C13_SigintDrains ==
  (dstate = "exited" /\ exit_how = "sigint") =>
    \A w \in Workers : conn[w].st \notin {"active", "served"}

\* C14: once the handler of SHUTDOWN has run the daemon exits, if the main
\* loop and the active workers get on; no signal from outside is needed.
C14_ShutdownExits ==
  (\E w \in Workers : conn[w].st = "served" /\ conn[w].handler = "SHUTDOWN")
    ~> (dstate = "exited")

\* The daemon has exited after a SHUTDOWN command, drained, and no signal
\* was sent from outside.
C14_Witness ==
  /\ dstate = "exited" /\ exit_how = "drained"
  /\ nsignals = 0
  /\ \E w \in Workers : conn[w].st = "closed" /\ conn[w].handler = "SHUTDOWN"

\* ------------------------------------------------------------- the journal
\* The piece at place i of the file f.
Piece(f, i) == [id |-> f[i].id, part |-> f[i].part]

\* A writer is about to put piece k of the record id.
UnderWay(id, k) ==
  \E t \in Threads : /\ jw[t].rec.id = id
                     /\ \/ jw[t].pc = "open" /\ jw[t].k = k
                        \/ jw[t].pc = "failed"

\* The file f of the day d holds records of that day only, each in one
\* piece after the other with nothing in between and none twice; only the
\* record a writer is at may be incomplete, at the end of the file.
LinesOf(f, d) ==
  \A i \in 1..Len(f) :
    /\ f[i].date = d
    /\ f[i].part \in Chunks
    /\ f[i].part > 1 =>
         i > 1 /\ Piece(f, i - 1) = [id |-> f[i].id, part |-> f[i].part - 1]
    /\ (f[i].part < NChunks /\ i < Len(f)) =>
         Piece(f, i + 1) = [id |-> f[i].id, part |-> f[i].part + 1]
    /\ (f[i].part < NChunks /\ i = Len(f)) => UnderWay(f[i].id, f[i].part + 1)
    /\ \A j \in 1..Len(f) : j # i => Piece(f, j) # Piece(f, i)

\* The record r is in the file of its own date, complete.
Written(r) ==
  \A k \in Chunks :
    \E i \in 1..Len(jfiles[Prefix8(r)]) :
      jfiles[Prefix8(r)][i] = [id |-> r.id, date |-> Prefix8(r), part |-> k]

\* The writers whose record write_log has put out.
Wrote(t) == jw[t].rec.id # 0 /\ jw[t].pc \in {"flushed", "idle"}

\* C19: under any interleaving of the writers every record is appended as
\* one whole, uninterrupted line to the daily file whose suffix is the date
\* at the head of the record's own timestamp, also when its date is earlier
\* than that of the file that was open.
C19_WholeLinesByDate ==
  /\ \A d \in Days : LinesOf(jfiles[d], d)
  /\ \A t \in Threads : Wrote(t) => Written(jw[t].rec)

\* A record of day 0 was written after the file of day 1 had been written
\* to: the file of day 0 is the open one again.
C19_Witness ==
  /\ logfile.fp /\ logfile.suffix = 0
  /\ Len(jfiles[1]) >= NChunks
  /\ \E t \in Threads : Wrote(t) /\ Prefix8(jw[t].rec) = 0
                                 /\ Written(jw[t].rec)

\* A write to the journal has failed.
JFailed == \E t \in Threads : jw[t].pc = "failed"

\* Threads other than t are in the middle of their work.
OthersBusy(t) ==
  \E u \in Threads \ {t} : jw[u].pc \in {"composed", "locked", "open",
                                          "flushed"}

\* C20: when writing a record fails (open, write, flush or close), the
\* process ends with exit code 4 and takes up no further work, but only
\* after the other threads have had a short time to finish: the failure
\* itself does not yet end the process.
C20_WindowThenExit4 ==
  /\ [](JFailed /\ dstate = "exited" => exit_code = 4)
  /\ [][JFailed => \A t \in Threads : jw'[t].pc = "composed"
                                       => jw[t].pc = "composed"]_vars
  /\ [][\A t \in Threads :
          jw[t].pc # "failed" /\ jw'[t].pc = "failed" /\ OthersBusy(t)
            => dstate' # "exited"]_vars

\* ------------------------------------------------------- the access token
\* The calls of get_access_token that have returned a token.
GotToken(t) == tk[t].pc = "done" /\ tk[t].ret # NoToken

\* C15: the cache hands out its cached token only if now + 30 < expires_on
\* and no 401 has been observed since that token was put into the cache;
\* any other token a call returns was fetched by a request of that call.
C15_CachedOnlyIfUsable ==
  \A t \in Threads :
    GotToken(t) => tk[t].fresh \/ (tk[t].valid /\ ~tk[t].stale)

\* C16: one call of get_access_token makes at most 10 requests for a
\* token; a call that ends without a token ends with an error, and so does
\* the call that finds no usable token after its tenth request.
C16_AtMostTenRequests ==
  \A t \in Threads :
    /\ tk[t].nreq <= 10
    /\ tk[t].pc = "done" => (tk[t].ret = NoToken) = (tk[t].err # "")
    /\ (tk[t].pc = "done" /\ tk[t].nreq = 10 /\ ~tk[t].valid) =>
         tk[t].ret = NoToken

\* A call has given up after ten requests.
C16_Witness ==
  \E t \in Threads :
    tk[t].pc = "done" /\ tk[t].nreq = 10 /\ tk[t].err = "TIMEOUT"

\* ------------------------------------------------------------- the locks
\* The locks the thread t holds, the lock it is about to take.
Held(t) == {l \in LockNames : locks[l] = t}
Waits(t, l) == AtStep(t) /\ NextOp(t).op = "lock" /\ NextOp(t).arg = l
InHttp(t) == AtStep(t) /\ NextOp(t).op = "http"

\* C17: no thread holds a lock (sessions, journal, preorder or account
\* database, token mutex) while it performs an HTTP request to a gateway.
C17_NoLockAcrossHttp == \A t \in Threads : InHttp(t) => Held(t) = {}

\* C17 as the code has it: during the request for a token, and only then,
\* the thread holds the token mutex; it holds no other lock during any
\* request to a gateway.
C17_OnlyTokenMutexAcrossHttp ==
  \A t \in Threads :
    InHttp(t) => Held(t) = IF NextOp(t).arg = "oauth2/token"
                           THEN {"my_lock"} ELSE {}

\* A thread asks for a token, with the mutex held, and another thread
\* waits for the mutex.
C17_Witness ==
  \E t \in Threads, u \in Threads :
    /\ InHttp(t) /\ Held(t) = {"my_lock"}
    /\ Waits(u, "my_lock")

\* Some threads wait for locks that only threads among them hold.
Deadlocked ==
  \E S \in SUBSET Threads \ {{}} :
    \A t \in S : \E l \in LockNames : Waits(t, l) /\ locks[l] \in S

\* C18: the locks cannot deadlock: a handler that has returned holds no
\* lock, whatever path it took; the token mutex is never held together
\* with another lock; the only lock taken while another is held is the
\* journal lock inside the preorder database lock.
C18_NoDeadlock ==
  /\ ~Deadlocked
  /\ \A t \in Threads :
       /\ (Alive /\ (lk[t].st = "idle" \/ lk[t].rest = <<>>)) => Held(t) = {}
       /\ "my_lock" \in Held(t) => Held(t) = {"my_lock"}
       /\ Cardinality(Held(t)) > 1 =>
            Held(t) = {"preorder_db_lock", "logfile_lock"}
       /\ \A l \in LockNames :
            (Waits(t, l) /\ Held(t) # {}) =>
              Held(t) = {"preorder_db_lock"} /\ l = "logfile_lock"

\* A thread holds the journal lock inside the preorder database lock while
\* another thread waits for one of the two.
C18_Witness ==
  \E t \in Threads, u \in Threads :
    /\ Held(t) = {"preorder_db_lock", "logfile_lock"}
    /\ Waits(u, "preorder_db_lock") \/ Waits(u, "logfile_lock")


\* ------------------------------------------------------ execute is one-shot
\* The execute of thread t has ended with an error before any call to
\* PayPal, while another execute with the same alias got through to it.
Replayed(t) ==
  /\ ex[t].pc = "failed"
  /\ ~ex[t].contacted
  /\ xpaid[ex[t].alias] >= 1

\* C3: PPCHECKOUT execute is one-shot per alias: at most one execute request
\* carrying an alias gets past alias resolution to the PayPal execute call,
\* also when several run concurrently, and every other one fails with
\* NOT_FOUND without contacting the gateway and without writing a journal
\* record.
C3_OneShotNotFound ==
  /\ \A a \in 1..MaxIdsB : xpaid[a] <= 1
  /\ \A t \in Threads :
       Replayed(t) => ex[t].err = "NOT_FOUND" /\ ~ex[t].journaled

\* C3 as the code has it: at most one execute request carrying an alias gets
\* to the PayPal execute call; every other one that returns fails without
\* contacting the gateway and without a journal record, with NOT_FOUND, or
\* with ENOMEM if it ran out of memory while the alias still existed.
C3_OneShot ==
  /\ \A a \in 1..MaxIdsB : xpaid[a] <= 1
  /\ \A t \in Threads :
       Replayed(t) => /\ ex[t].err \in {"NOT_FOUND", "ENOMEM"}
                      /\ ~ex[t].journaled

\* Two executes with the same alias ran concurrently: both resolved the
\* alias, one has executed the payment and written the journal record, the
\* other failed with NOT_FOUND when it came to destroy the alias.
C3_Witness ==
  \E t, u \in Threads :
    /\ t # u
    /\ ex[t].alias = ex[u].alias
    /\ ex[t].pc = "done" /\ ex[t].journaled
    /\ ex[u].pc = "failed" /\ ex[u].err = "NOT_FOUND"
    /\ ex[u].sessid = ex[t].sessid /\ ex[u].sessid # 0
    /\ xpaid[ex[t].alias] = 1


\* ------------------------------------------------------- preorder inserts
\* C21: all Sepa-Ref values returned by successful preorder inserts are
\* pairwise distinct, also when inserts run concurrently and when the mint
\* produces a reference that is already in the table, and each returned
\* reference retrieves the row inserted by that same request.
C21_DistinctAndRetrievable ==
  /\ \A a, b \in plog.ret : a.req # b.req => a.separef # b.separef
  /\ \A a \in plog.ret :
       /\ ptab.rows[RefPart(a.separef)].present
       /\ ptab.rows[RefPart(a.separef)].req = a.req
       /\ get_columns(ptab.rows[RefPart(a.separef)], RefPart(a.separef))
            = a.separef

\* Two inserts have succeeded, one of them after its mint had produced a
\* reference of the table, while the other thread was waiting for the lock
\* or had its own command under way.
C21_Witness ==
  /\ \E a, b \in plog.ret : a.req # b.req /\ b.clashed
  /\ \E t \in Threads : pq[t].pc \in {"open", "insert", "update"}

\* C22: a preorder insert makes at most 11000 insertion attempts: on a
\* primary-key conflict it mints a new reference and tries again, and after
\* 11000 conflicts in a row it stops and returns an error without having
\* inserted a row.
C22_AtMostRetryLimit ==
  \A t \in Threads :
    /\ pq[t].attempts <= RetryLimit
    /\ pq[t].attempts <= pq[t].retrycount + 1
    /\ (pq[t].pc = "insert" /\ pq[t].attempts > 0) =>
         pq[t].retrycount = pq[t].attempts /\ pq[t].err = ""
    /\ (pq[t].cmd = "insert" /\ pq[t].retrycount = RetryLimit) =>
         /\ pq[t].pc \in {"close", "done"}
         /\ pq[t].err = "GENERAL"
         /\ \A r \in Refs : ptab.rows[r].req # pq[t].req
         /\ \A a \in plog.ret : a.req # pq[t].req

\* An insert has given up after 11000 attempts and has returned.
C22_Witness ==
  \E t \in Threads :
    /\ pq[t].pc = "done"
    /\ pq[t].cmd = "insert"
    /\ pq[t].attempts = RetryLimit
    /\ pq[t].err = "GENERAL"


\* ------------------------------------------------------ preorder commits
\* The commits for reference r that have succeeded: those answered, and
\* those that have come back from update_preorder_record with 0 and have
\* the journal record or the unlock before them.
Committed(r) ==
  plog.commits[r]
  + Cardinality({t \in Threads : /\ pq[t].cmd = "commit"
                                 /\ RefPart(pq[t].separef) = r
                                 /\ pq[t].pc \in {"journal", "close"}
                                 /\ pq[t].err = ""})

\* C23: for every preorder row, npaid equals the number of COMMITPREORDER
\* commands that succeeded for its reference, and paid_at is set exactly
\* when there was one; a commit for a reference without a row changes
\* nothing.
C23_NpaidCountsCommits ==
  \A r \in Refs :
    /\ ptab.rows[r].npaid = Committed(r)
    /\ (ptab.rows[r].paid # 0) = (Committed(r) > 0)
    /\ ~ptab.rows[r].present => ptab.rows[r] = NoRow


\* ----------------------------------------------------- PPIPNHD is one-way
\* The verification of the notification of thread t has begun.
Verifying(t) == ipn[t].pc = "verify" \/ ipn[t].verify # ""

\* C24: for PPIPNHD the worker writes the complete OK reply and closes the
\* client socket before the verification of the notification begins, and
\* nothing but that reply is ever sent to the client.
C24_ReplyBeforeVerify ==
  \A t \in Threads :
    /\ Verifying(t) => /\ ipn[t].wire = OkReply
                       /\ ~ipn[t].fd
                       /\ ~ipn[t].stream
    /\ ipn[t].wire \in {<<>>, OkReply}
    /\ ipn[t].pc = "released" => ipn[t].wire = OkReply /\ ipn[t].buf = <<>>

\* A notification has been verified and its connection released.
C24_Witness ==
  \E t \in Threads :
    /\ ipn[t].pc = "released"
    /\ ipn[t].verify = "VERIFIED"
    /\ ipn[t].wire = OkReply


\* ------------------------------------------------------- complete replies
\* C29: every connection whose request the worker reads, be it well-formed,
\* malformed, unknown or refused, gets one complete reply before the worker
\* closes the socket: a status line first and a terminating empty line
\* last; for an unknown command the status is ERR 1 (Unknown command).
C29_CompleteReply ==
  \A w \in Dealt :
    conn[w].req.kind \in {"read", "unread"} =>
      /\ conn[w].reply.err # "none"
      /\ conn[w].reply.eol
      /\ (conn[w].req.kind = "read" /\ CmdIdx(conn[w].req.line) = 0) =>
           /\ conn[w].reply.err = "1"
           /\ conn[w].reply.desc = "Unknown command"


\* ------------------------------------------ claims on SESSION put and get
\* The entries of a dictionary that have a value.
Entries(dict) == {dict[i] : i \in {j \in 1..Len(dict) : dict[j].value # NOVAL}}

\* The entries of a dictionary under this name.
Under(dict, n) == {e \in Entries(dict) : e.name = n}

\* A SESSION get of the session the run starts with has been answered OK.
GotSession == sreply.cmd = "get" /\ sreply.id = 1 /\ sreply.err = "OK"

\* The names the clients' puts store entries under.
ClientNames == {capitalize_name(n) : n \in RawNames} \ {InternalName}

\* C25: after any sequence of puts on a live session, session_get returns
\* for each name the value of the most recent put that named it, no entry
\* for a name whose most recent put carried an empty value or that no put
\* named, and so leaves alone what no put named.
C25_GetReturnsLastPut ==
  GotSession =>
    \A n \in ClientNames :
      Under(sreply.got, n) =
        IF sreply.exp[n] = NOVAL THEN {}
        ELSE {[name |-> n, value |-> sreply.exp[n]]}

\* C26: once a SESSION put has met an out-of-memory error, the session and
\* its aliases are gone: each later get or put of that id that is read is
\* answered NOT_FOUND, and no alias leads to a session.
C26_DestroyedOnEnomem ==
  /\ (sreply.after /\ sreply.id = 1
      /\ sreply.err \notin {"INV_NAME", "PROTOCOL_VIOLATION"})
       => sreply.err = "NOT_FOUND"
  /\ (sexp.gone /\ Running)
       => /\ session_get(Mem, 1, now, FALSE).err = "NOT_FOUND"
          /\ \A a \in 2..(1 + MAX_ALIASES_PER_SESSION) :
               session_get_sessid(Mem, a, FALSE).err = "NOT_FOUND"

\* The entries a dictionary holds under names that begin with '_'.
InternalEntries(dict) == {e \in Entries(dict) : FirstChar(e.name) = 95}

\* C27: a request with a data line whose name begins with '_' is rejected
\* when it is read, the session holds under such names only what the
\* checkout has backed up there, and no reply to SESSION get has a line
\* with such a name.
C27_InternalIsolated ==
  /\ sreply.internal => sreply.err \in {"INV_NAME", "PROTOCOL_VIOLATION"}
  /\ Running =>
       InternalEntries(SessionDict(Mem, 1, now)) \subseteq
         IF sexp.backup
         THEN {[name |-> InternalName, value |-> InternalValue]}
         ELSE {}
  /\ \A i \in 1..Len(sreply.lines) : FirstChar(sreply.lines[i].name) # 95

\* The checkout has backed up its state, a client's put naming "_p" has
\* been rejected and the state is still there.
C27_Witness ==
  /\ sexp.backup
  /\ sreply.cmd = "put"
  /\ sreply.internal
  /\ sreply.err = "INV_NAME"
  /\ Running
  /\ InternalEntries(SessionDict(Mem, 1, now)) =
       {[name |-> InternalName, value |-> InternalValue]}

\* C28: every entry the session holds under a name that begins with an
\* uppercase letter is among the lines of the reply to SESSION get.
C28_VisibleReturned ==
  GotSession =>
    \A e \in Entries(sreply.held) :
      (FirstChar(e.name) >= 65 /\ FirstChar(e.name) <= 90)
        => \E i \in 1..Len(sreply.lines) : sreply.lines[i] = e


\* ------------------------------------------------ claims on escaped fields
\* The bytes the escaping is to keep out of a field: ':', '&', '%', LF, CR.
Delimiters == {58, 38, 37, 10, 13}

\* What a field whose every delimiter is written as %HH looks like.
RECURSIVE AllEscaped(_, _)
AllEscaped(s, i) ==
  IF i > Len(s) THEN <<>>
  ELSE (IF s[i] \in Delimiters THEN PercentHex(s[i]) ELSE <<s[i]>>)
       \o AllEscaped(s, i + 1)

\* C30: a field that was written and read back is the field that was
\* written, and what was written is the field with each ':', '&', '%', LF
\* and CR as %HH, so that it has none of these but the '%' of a %HH.
C30_EscapeRoundTrip ==
  /\ pe.pc \in {"written", "read"} =>
       /\ pe.out = AllEscaped(pe.s, 1)
       /\ \A i \in 1..Len(pe.out) : pe.out[i] \notin Delimiters \ {37}
  /\ pe.pc = "read" => pe.back = pe.s


\* --------------------------------------------- claims on the store's frame
\* A step is a create_alias call for id that is refused with LIMIT_REACHED.
RefusedAlias(id, garbage, fault) ==
  /\ session_create_alias(Mem, id, now, "none", garbage, fault).err
       = "LIMIT_REACHED"
  /\ Alias(MaxIdsA, id, "none", garbage, fault)

\* C39: a create_alias call that is refused with LIMIT_REACHED leaves the
\* alias index, the alias free list, the alias objects and the alias slots
\* of every session as they were, and writes no memory outside the store's
\* objects.
C39_RefusedAliasFrame ==
  [][\A id \in GivenIds, garbage \in Garbage, fault \in BOOLEAN :
       RefusedAlias(id, garbage, fault) =>
         /\ aliases' = aliases
         /\ unused_aliases' = unused_aliases
         /\ al' = al
         /\ \A s \in DOMAIN sess : sess'[s].aliases = sess[s].aliases
         /\ wild_write' = wild_write
         /\ proc' = proc]_vars


\* The alias objects a chain leads to from p, in at most n steps.
RECURSIVE AliasChain(_, _, _)
AliasChain(m, p, n) ==
  IF p = NULL \/ n = 0 THEN {}
  ELSE {p} \cup AliasChain(m, m.al[p].next, n - 1)

\* The alias objects in the alias index and those on the free list.
IndexedAliases(m) ==
  UNION {AliasChain(m, m.aliases[b], Cardinality(ACells)) : b \in Buckets}
FreeAliases(m) == AliasChain(m, m.unused_aliases, Cardinality(ACells))

\* The slots of session object s that hold alias object a.
SlotsOf(m, s, a) == {i \in Slots : m.sess[s].aliases[i] = a}

\* C37: while the daemon runs, every indexed alias refers to an indexed
\* session that holds it in exactly one slot, every non-empty slot of an
\* indexed session holds an indexed alias, no object is both indexed and on
\* a free list, and sessions_in_use counts the indexed sessions.
C37_IndexesConsistent ==
  Running =>
    /\ \A a \in IndexedAliases(Mem) :
         /\ al[a].sess \in LiveSess(Mem)
         /\ Cardinality(SlotsOf(Mem, al[a].sess, a)) = 1
    /\ \A s \in LiveSess(Mem), i \in Slots :
         sess[s].aliases[i] # NULL =>
           sess[s].aliases[i] \in IndexedAliases(Mem)
    /\ IndexedAliases(Mem) \cap FreeAliases(Mem) = {}
    /\ LiveSess(Mem) \cap SessChain(Mem, unused_sessions) = {}
    /\ sessions_in_use = Cardinality(LiveSess(Mem)) + bulk


\* ------------------------------------------------- preorder replies
\* C40: the reply to a SEPAPREORDER has a Sepa-Ref only if the request has
\* succeeded and the row of that reference is the one it inserted.
C40_RefOnlyIfInserted ==
  \A t \in Threads :
    (pq[t].cmd = "insert" /\ pq[t].pc = "done") =>
      \A ref \in SepaRefLines(pq[t]) :
        /\ pq[t].err = ""
        /\ ptab.rows[RefPart(ref)].present
        /\ ptab.rows[RefPart(ref)].req = pq[t].req


AnsweredOK ==
  /\ su.env.connect /\ su.env.fdopen
  /\ su.env.line # NoLine
  /\ has_leading_keyword(su.env.line, "OK")

\* create_socket has exited because a daemon is taken to be running.
StartRefused ==
  su.pc = "exit" /\ su.code = 2 /\ su.said = "already running"

\* C33 as stated: after the bind has failed with EADDRINUSE and the socket
\* has been probed, startup aborts if and only if the answer to the PING
\* begins with OK; in every other case the socket file is unlinked and the
\* bind is retried.
C33_AbortsIffOK ==
  su.probed =>
    /\ StartRefused <=> AnsweredOK
    /\ ~AnsweredOK => (su.pc = "retry" \/ (su.unlinked /\ su.binds = 2))

\* C33, amended: after the bind has failed with EADDRINUSE and the socket
\* has been probed, startup aborts if and only if the connect to the socket
\* succeeded, whatever is read after the PING; the socket file is unlinked
\* and the bind retried only when the connect failed.
C33_AbortsIffConnected ==
  su.probed =>
    /\ StartRefused <=> su.env.connect
    /\ su.env.connect => (~su.unlinked /\ su.binds = 1)
    /\ ~su.env.connect => (su.pc = "retry" \/ (su.unlinked /\ su.binds = 2))

\* A connected socket answered the PING with something other than OK and
\* startup was aborted.
C33_Witness ==
  /\ su.probed /\ StartRefused
  /\ su.env.connect /\ su.env.fdopen /\ su.env.line.head = "ERR"
  /\ ~su.unlinked


\* 10*n + digit without a limit on n: three 16 bit groups, the last one
\* as large as it gets.
ExactTimes10Plus(n, digit) ==
  LET l0 == 10 * n[1] + digit
      l1 == 10 * n[2] + l0 \div Half
      l2 == 10 * n[3] + l1 \div Half
  IN <<l0 % Half, l1 % Half, l2>>

RECURSIVE ExactScale(_, _, _)
ExactScale(nfrac, decdigits, n) ==
  IF nfrac >= decdigits THEN n
  ELSE ExactScale(nfrac + 1, decdigits, ExactTimes10Plus(n, 0))

\* The exact value of an amount in the smallest currency unit, <<>> for
\* a string that is not an amount with at most decdigits decimals.
RECURSIVE ExactFrom(_, _, _, _, _, _)
ExactFrom(string, i, decdigits, ndots, nfrac, n) ==
  IF i > Len(string) THEN ExactScale(nfrac, decdigits, n)
  ELSE IF string[i] = 46
  THEN IF decdigits = 0 \/ ndots > 0 THEN <<>>
       ELSE ExactFrom(string, i + 1, decdigits, 1, nfrac, n)
  ELSE IF string[i] \notin 48..57 THEN <<>>
  ELSE IF ndots > 0 /\ nfrac + 1 > decdigits THEN <<>>
  ELSE ExactFrom(string, i + 1, decdigits, ndots,
                 IF ndots > 0 THEN nfrac + 1 ELSE nfrac,
                 ExactTimes10Plus(n, string[i] - 48))

ExactAmount(string, decdigits) ==
  ExactFrom(string, IF Len(string) > 0 /\ string[1] = 43 THEN 2 ELSE 1,
            decdigits, 0, 0, <<0, 0, 0>>)

\* C34: convert_amount returns 0 for every amount whose exact value in the
\* smallest currency unit does not fit an unsigned int, and an amount it
\* returns that is not 0 is the exact value.
C34_NoWrappedAmount ==
  ca.pc = "converted" =>
    LET x == ExactAmount(ca.string, ca.decdigits)
    IN /\ (x # <<>> /\ x[3] # 0) => ca.value = U32Zero
       /\ ca.value # U32Zero =>
            x # <<>> /\ x = <<ca.value[1], ca.value[2], 0>>


\* The listed plans that have the name looked for, and those of them that
\* carry an update_time.
Matching == {i \in 1..Len(fp.plans) : fp.plans[i].idok /\ fp.plans[i].named}
Dated == {i \in Matching : fp.plans[i].upd # <<>>}
Found == fp.pc = "returned" /\ fp.err = "none"

\* Plan i has the largest update_time of the plans with the name.
Newest(i) ==
  \A j \in Matching : ~StrGreater(fp.plans[j].upd, fp.plans[i].upd)

\* a comes before b by the length of the id and then by its bytes.
IdBefore(a, b) ==
  Len(a) < Len(b) \/ (Len(a) = Len(b) /\ StrGreater(b, a))

\* C32 as stated: find_plan returns, among the listed plans with the
\* name, one with the largest update_time, and among several of those the
\* first or the last by id length and then by the bytes of the id; it
\* returns no plan only if no listed plan has the name.
C32_NewestByIdOrder ==
  Found =>
    /\ fp.r_plan_id = NoPlanId => Matching = {}
    /\ fp.r_plan_id # NoPlanId =>
         \E i \in Matching :
           /\ fp.r_plan_id = PlanId(i) /\ Newest(i)
           /\ \/ \A j \in Matching \ {i} :
                   Newest(j) => IdBefore(PlanId(i), PlanId(j))
              \/ \A j \in Matching \ {i} :
                   Newest(j) => IdBefore(PlanId(j), PlanId(i))

\* C32, amended: when no plan with the name has an update_time of more
\* than 24 characters, find_plan returns, among the plans with the name
\* and an update_time on all pages, the first listed of those with the
\* largest update_time; it returns no plan if and only if no listed plan
\* has the name and an update_time.
C32_FirstNewest ==
  (Found /\ \A i \in Matching : Len(fp.plans[i].upd) <= LastUpdateLen) =>
    /\ fp.r_plan_id = NoPlanId <=> Dated = {}
    /\ fp.r_plan_id # NoPlanId =>
         \E i \in Dated :
           /\ fp.r_plan_id = PlanId(i) /\ Newest(i)
           /\ \A j \in Dated : j < i =>
                StrGreater(fp.plans[i].upd, fp.plans[j].upd)

\* Three plans with the name and the same update_time are listed on two
\* pages, the first of them neither first nor last by its id, and the
\* first is returned.
C32_Witness ==
  /\ Found
  /\ \E i, j, k \in Dated :
       /\ i < j /\ j < k /\ i <= page_size /\ k > page_size
       /\ fp.plans[i].upd = fp.plans[j].upd
       /\ fp.plans[j].upd = fp.plans[k].upd
       /\ Len(fp.plans[i].upd) <= LastUpdateLen
       /\ Newest(i)
       /\ IdBefore(PlanId(j), PlanId(i)) /\ IdBefore(PlanId(i), PlanId(k))
       /\ fp.r_plan_id = PlanId(i)
  /\ \A i \in Matching : Len(fp.plans[i].upd) <= LastUpdateLen


\* The alias ids in the slots of the session objects in use.
AllocatedIds ==
  {al[x[2]].aliasid :
     x \in {y \in salloc \X ACells :
              \E i \in Slots : sess[y[1]].aliases[i] = y[2]}}

\* C35: between two requests the daemon has stopped, or it has written a
\* charge record for every transaction a gateway has accepted.
C35_AcceptedIsJournaled ==
  (Running /\ ~ck.dead) => ck.acc = ck.jrn

\* C36: an execute that PayPal accepted for the alias of a prepare has
\* executed, and handed to the journal, the payment that this prepare
\* recorded: its payment id or execute URL, its amount and its recurrence.
C36_ExecutesOwnPayment ==
  (/\ ck.last.cmd = "execute" /\ ck.last.accepted
   /\ ck.made[ck.last.alias] # NoPay)
    => ck.last.pay = ck.made[ck.last.alias]

\* C38: after a prepare that failed once it had its alias, the alias is
\* not in a slot of the session, and a prepare is refused with
\* LIMIT_REACHED only when the aliases of successful prepares fill the
\* slots.
C38_FailedPrepareFreesAlias ==
  (Running /\ ck.last.cmd = "prepare") =>
    /\ (ck.last.err # "OK" /\ ck.last.alias # 0) =>
         ck.last.alias \notin AllocatedIds
    /\ ck.last.err = "LIMIT_REACHED" =>
         Cardinality({i \in Ids : ck.made[i] # NoPay /\ i \in AllocatedIds})
           = MAX_ALIASES_PER_SESSION

=============================================================================
